---- MODULE Spec2Model ----
(***************************************************************************)
(* Model of the fasttraders core: the Worker run loop over BotState, the   *)
(* RPCManager fan-out, and the Exchange candle cache with its refresh      *)
(* path (refresh_latest_ohlcv) and the OHLCV normaliser it calls.          *)
(*                                                                         *)
(* Twelve specifications share the variables:                              *)
(*   Spec         the Worker loop, external start/stop requests, fan-out   *)
(*   SpecSeq      one thread calling refresh_latest_ohlcv for one key      *)
(*   SpecBatch    one thread calling refresh_latest_ohlcv for two keys     *)
(*   SpecRefresh  two threads calling refresh_latest_ohlcv for one key     *)
(*   SpecClean    clean_ohlcv_dataframe applied to a series and its result *)
(*   SpecMerge    a fetched result processed for a key another call stored *)
(*   SpecRead     refresh cycles while a caller reads the cache            *)
(*   SpecAnalyze  Bot.loop_update: refresh, then analysis and publish      *)
(*   SpecSkip     one thread, keys with listed and unlisted timeframes     *)
(*   SpecPages    one thread, two keys, a start time given by the caller   *)
(*   SpecFair     two threads under the scheduling of lock and event loop  *)
(*   SpecCandle   Bot.loop_update while the clock passes into later candles*)
(***************************************************************************)
EXTENDS Integers, Sequences, FiniteSets, TLC

VARIABLES
    botState,     \* Bot.state
    cfgInit,      \* settings.BOT_INIT_STATE ("unset" when the setting is absent)
    pc,           \* position of the main thread: read / dispatch / exit / done
    wstate,       \* local `state` of Worker._worker
    oldState,     \* local `state` of Worker.run, passed as old_state
    handlers,     \* RPCManager.handlers, in registration order
    lastSent,     \* the send_msg calls made by the last step, in order
    lastTorn,     \* the handlers torn down by the last step, in order
    lastOp,       \* name of the last step taken
    faulted,      \* history: the RUNNING handler faulted and no start request
                  \* has set RUNNING since
    step,         \* what the last step did: the hooks it called, whether a
                  \* teardown raised in it, Bot.state before it
    owed,         \* history: the states entered since construction whose
                  \* hook has not fired
    elapsed,      \* seconds from the start of the last throttled handler to
                  \* the return of Worker._throttle
    conv,         \* the converter run: input, settings, results
    now,          \* wall clock, seconds
    klines,       \* Exchange._klines
    lastRefresh,  \* Exchange._pairs_last_refresh_time
    loopLock,     \* Exchange._loop_lock: the owner, or "free"
    th,           \* per thread: the frame of its refresh_latest_ohlcv call
    hist,         \* the last step of the refresh path and what it decided
    env,          \* the inputs the run draws from (fixed by the initial state)
    rd,           \* the frame a caller of DataProvider.ohlcv holds
    an            \* the strategy: its settings, the pairs it has seen, the
                  \* position of Bot.loop_update and its last analyze() call

schedVars == <<botState, cfgInit, pc, wstate, oldState, handlers, lastSent,
               lastTorn, lastOp, faulted, step, owed, elapsed>>
exchVars == <<now, klines, lastRefresh, loopLock, th, hist, env, conv, rd,
              an>>
vars == <<botState, cfgInit, pc, wstate, oldState, handlers, lastSent,
          lastTorn, lastOp, faulted, step, owed, elapsed, now, klines,
          lastRefresh, loopLock, th, hist, env, conv, rd, an>>

(***************************************************************************)
(* Bounds                                                                  *)
(***************************************************************************)
\* number of sinks registered with the fan-out
MaxSinks == 2
\* longest handler run, in halves of the throttle time
MaxDur == 2

(***************************************************************************)
(* enums/state.py, rpc/manager.py, bot.py, worker.py                       *)
(***************************************************************************)
State == {"STARTED", "RUNNING", "STOPPED"}

NoState == "None"

\* what a sink's send_msg / cleanup does when called
SinkOutcome == {"ok", "NotImplementedError", "Exception"}

SinkIds == 1..MaxSinks

\* Bot defines loop_update but no update: the call self.bot.update() in
\* Worker.running raises AttributeError on every invocation.
bot_update_raises == TRUE

RECURSIVE send_loop_stop(_, _, _)
send_loop_stop(hs, i, oc) ==
    IF i > Len(hs) THEN <<>>
    ELSE IF oc[hs[i]] # "ok" THEN <<hs[i]>>
    ELSE <<hs[i]>> \o send_loop_stop(hs, i + 1, oc)

\* a fan-out that lets the first sink error escape
send_msg_propagating(hs, msgType, oc) ==
    [type |-> msgType, sinks |-> hs, oc |-> oc,
     calls |-> send_loop_stop(hs, 1, oc),
     raised |-> \E i \in 1..Len(hs) : oc[hs[i]] # "ok"]

RECURSIVE send_loop_backwards(_, _, _)
\* a fan-out that starts with the sink registered last
send_loop_backwards(hs, i, oc) ==
    IF i > Len(hs) THEN <<>>
    ELSE <<hs[Len(hs) + 1 - i]>> \o send_loop_backwards(hs, i + 1, oc)

RECURSIVE send_loop(_, _, _)
\* the for loop of RPCManager.send_msg: both except clauses log and go on
send_loop(hs, i, oc) ==
    IF i > Len(hs) THEN <<>>
    ELSE <<hs[i]>> \o send_loop(hs, i + 1, oc)

\* a fan-out that calls every sink and then lets a sink error escape
send_msg_reraising(hs, msgType, oc) ==
    [type |-> msgType, sinks |-> hs, oc |-> oc,
     calls |-> send_loop(hs, 1, oc),
     raised |-> \E i \in 1..Len(hs) : oc[hs[i]] # "ok"]

\* RPCManager.send_msg(msg): the record of one call.  calls lists the sinks
\* whose send_msg was invoked, raised tells whether an error left the call.
send_msg(hs, msgType, oc) ==
    [type |-> msgType, sinks |-> hs, oc |-> oc,
     calls |-> send_loop(hs, 1, oc),
     raised |-> FALSE]

\* a teardown that pops one handler and stops
cleanup_loop_once(hs, toc) ==
    IF Len(hs) = 0 THEN [left |-> <<>>, torn |-> <<>>, raised |-> FALSE]
    ELSE [left |-> SubSeq(hs, 1, Len(hs) - 1), torn |-> <<hs[Len(hs)]>>,
          raised |-> toc[hs[Len(hs)]] # "ok"]

RECURSIVE cleanup_loop_fifo(_, _)
\* a teardown that takes the handlers from the front of the list
cleanup_loop_fifo(hs, toc) ==
    IF Len(hs) = 0 THEN [left |-> <<>>, torn |-> <<>>, raised |-> FALSE]
    ELSE LET h == hs[1]
             rest == SubSeq(hs, 2, Len(hs))
         IN  IF toc[h] # "ok"
             THEN [left |-> rest, torn |-> <<h>>, raised |-> TRUE]
             ELSE LET r == cleanup_loop_fifo(rest, toc)
                  IN  [left |-> r.left, torn |-> <<h>> \o r.torn,
                       raised |-> r.raised]

\* a teardown that tears the last handler down and leaves it registered
cleanup_loop_keep(hs, toc) ==
    IF Len(hs) = 0 THEN [left |-> <<>>, torn |-> <<>>, raised |-> FALSE]
    ELSE [left |-> hs, torn |-> <<hs[Len(hs)]>>,
          raised |-> toc[hs[Len(hs)]] # "ok"]

RECURSIVE cleanup_loop(_, _)
\* the while loop of RPCManager.cleanup: pop the last handler, call its
\* cleanup; an error raised by it leaves the loop (nothing catches it).
cleanup_loop(hs, toc) ==
    IF Len(hs) = 0 THEN [left |-> <<>>, torn |-> <<>>, raised |-> FALSE]
    ELSE LET h == hs[Len(hs)]
             rest == SubSeq(hs, 1, Len(hs) - 1)
         IN  IF toc[h] # "ok"
             THEN [left |-> rest, torn |-> <<h>>, raised |-> TRUE]
             ELSE LET r == cleanup_loop(rest, toc)
                  IN  [left |-> r.left, torn |-> <<h>> \o r.torn,
                       raised |-> r.raised]

\* Bot.notify_status default message type
MsgStatus == "STATUS"
\* RPCManager.startup_messages
MsgStartup == "STARTUP"
\* the msg_type Worker.running passes to notify_status
MsgFault == "Exception"

\* a fault path that reports and leaves the state alone
fault_state_kept(state) == state

\* the state Worker.running assigns after it has reported the fault
fault_state(state) == "STOPPED"

\* Bot.notify_status(msg, msg_type): one send_msg of that type
notify_status(hs, msgType, oc) == send_msg(hs, msgType, oc)

\* a start-up that falls back to STARTED
initial_state_started(cfg) == IF cfg = "unset" THEN "STARTED" ELSE cfg

\* Bot.__init__, lines 26-27: the state named by settings.BOT_INIT_STATE,
\* State.STOPPED when the setting is absent
initial_state(cfg) == IF cfg = "unset" THEN "STOPPED" ELSE cfg

\* a loop that fires the hook of the state at every read
transition_hooks_every_read(state, old_state) ==
    IF state = "RUNNING" THEN <<"startup">>
    ELSE IF state = "STOPPED" THEN <<"cleanup">>
    ELSE <<>>

\* Worker._worker, lines 66-80: the hooks a read fires
transition_hooks(state, old_state) ==
    IF state # old_state
    THEN IF state = "RUNNING" THEN <<"startup">>
         ELSE IF state = "STOPPED" THEN <<"cleanup">>
         ELSE <<>>
    ELSE <<>>

\* Worker._throttle_secs
throttle_secs == 60

\* the times a handler may take, time.time() - last_throttle_start_time
Durations == {i * (throttle_secs \div 2) : i \in 0..MaxDur}

\* Worker._throttle, lines 129-141: max(throttle_secs - time_passed, 0)
sleep_duration(time_passed) ==
    IF throttle_secs - time_passed > 0 THEN throttle_secs - time_passed
    ELSE 0

\* Worker._throttle, lines 142-154: the time it sleeps; sleep_duration is
\* printed and Worker._sleep is never called
throttle_sleeps(duration) == 0

\* Worker._throttle(func): the time from the start of func to the return
throttle(time_passed) ==
    time_passed + throttle_sleeps(sleep_duration(time_passed))

\* the entries into RUNNING and STOPPED
Entered(state) == {state} \cap {"RUNNING", "STOPPED"}

\* the states whose hook is among hs
Hooked(hs) ==
    {x \in {"RUNNING", "STOPPED"} :
        \E i \in 1..Len(hs) :
            hs[i] = (IF x = "RUNNING" THEN "startup" ELSE "cleanup")}

NoStep == [hooks |-> <<>>, raised |-> FALSE, from |-> NoState]

InitSched ==
    /\ cfgInit \in State \cup {"unset"}
    /\ botState = initial_state(cfgInit)
    /\ pc = "read"
    /\ wstate = NoState
    /\ oldState = NoState
    /\ \E n \in 1..MaxSinks : handlers = [i \in 1..n |-> i]
    /\ lastSent = <<>>
    /\ lastTorn = <<>>
    /\ lastOp = "init"
    /\ faulted = FALSE
    /\ step = NoStep
    /\ owed = {}
    /\ elapsed = 0

\* Worker._worker, lines 66-86: read the state, fire the transition hooks
WorkerRead ==
    /\ pc = "read"
    /\ wstate' = botState
    /\ lastOp' = "read"
    /\ LET hs == transition_hooks(botState, oldState)
       IN  /\ owed' = owed \ Hooked(hs)
           /\ IF hs = <<"startup">>
              THEN \E oc \in [SinkIds -> SinkOutcome] :
                     LET s == send_msg(handlers, MsgStartup, oc)
                     IN  /\ lastSent' = <<s>>
                         /\ pc' = (IF s.raised THEN "exit" ELSE "dispatch")
                         /\ step' = [hooks |-> hs, raised |-> FALSE,
                                     from |-> botState]
                         /\ UNCHANGED <<handlers, lastTorn>>
              ELSE IF hs = <<"cleanup">>
              THEN \E toc \in [SinkIds -> SinkOutcome] :
                     LET c == cleanup_loop(handlers, toc)
                     IN  /\ handlers' = c.left
                         /\ lastTorn' = c.torn
                         /\ lastSent' = <<>>
                         /\ step' = [hooks |-> hs, raised |-> c.raised,
                                     from |-> botState]
                         /\ pc' = (IF c.raised THEN "exit" ELSE "dispatch")
              ELSE /\ pc' = "dispatch"
                   /\ lastSent' = <<>>
                   /\ step' = [NoStep EXCEPT !.from = botState]
                   /\ UNCHANGED <<handlers, lastTorn>>
    /\ elapsed' = 0
    /\ UNCHANGED <<botState, cfgInit, oldState, faulted>>
    /\ UNCHANGED exchVars

\* Worker.running under Worker._throttle (lines 94-99, 164-177)
Running ==
    /\ pc = "dispatch"
    /\ wstate = "RUNNING"
    /\ step' = [NoStep EXCEPT !.from = botState]
    /\ IF bot_update_raises
       THEN \E oc \in [SinkIds -> SinkOutcome] :
              LET s == notify_status(handlers, MsgFault, oc)
              IN  /\ lastSent' = <<s>>
                  /\ IF s.raised
                     THEN /\ pc' = "exit"
                          /\ elapsed' = 0
                          /\ UNCHANGED <<botState, oldState, faulted, owed>>
                     ELSE /\ botState' = fault_state(botState)
                          /\ owed' = IF botState' # botState
                                     THEN owed \cup Entered(botState')
                                     ELSE owed
                          /\ faulted' = TRUE
                          /\ oldState' = wstate
                          /\ pc' = "read"
                          /\ \E d \in Durations : elapsed' = throttle(d)
                  /\ lastOp' = "running_fault"
       ELSE /\ lastSent' = <<>>
            /\ oldState' = wstate
            /\ pc' = "read"
            /\ lastOp' = "running"
            /\ \E d \in Durations : elapsed' = throttle(d)
            /\ UNCHANGED <<botState, faulted, owed>>
    /\ UNCHANGED <<cfgInit, wstate, handlers, lastTorn>>
    /\ UNCHANGED exchVars

\* Worker.stopped under Worker._throttle (lines 88-92, 161-162)
Stopped ==
    /\ pc = "dispatch"
    /\ wstate = "STOPPED"
    /\ oldState' = wstate
    /\ pc' = "read"
    /\ lastSent' = <<>>
    /\ lastOp' = "stopped"
    /\ step' = [NoStep EXCEPT !.from = botState]
    /\ \E d \in Durations : elapsed' = throttle(d)
    /\ UNCHANGED <<botState, cfgInit, wstate, handlers, lastTorn, faulted,
                   owed>>
    /\ UNCHANGED exchVars

\* Worker._worker with state STARTED: neither branch of lines 88-99
Idle ==
    /\ pc = "dispatch"
    /\ wstate = "STARTED"
    /\ oldState' = wstate
    /\ pc' = "read"
    /\ lastSent' = <<>>
    /\ lastOp' = "idle"
    /\ step' = [NoStep EXCEPT !.from = botState]
    /\ elapsed' = 0
    /\ UNCHANGED <<botState, cfgInit, wstate, handlers, lastTorn, faulted,
                   owed>>
    /\ UNCHANGED exchVars

\* RPC.rpc_start (rpc/base.py, lines 34-40): the state it leaves and the
\* status it returns
rpc_start(state) ==
    IF state = "RUNNING"
    THEN [state |-> state, status |-> "already running"]
    ELSE [state |-> "RUNNING", status |-> "starting ..."]

\* a stop handler that stops whatever the state is
rpc_stop_always(state) == [state |-> "STOPPED", status |-> "stopping ..."]

\* RPC.rpc_stop (rpc/base.py, lines 42-48)
rpc_stop(state) ==
    IF state = "RUNNING"
    THEN [state |-> "STOPPED", status |-> "stopping ..."]
    ELSE [state |-> state, status |-> "already stopped"]

\* RPC.rpc_start, called on the thread of a registered handler (the
\* Telegram command /start); a handler that was torn down relays nothing
RpcStart ==
    /\ pc \in {"read", "dispatch"}
    /\ Len(handlers) > 0
    /\ LET r == rpc_start(botState)
       IN  IF r.status = "already running"
           THEN /\ lastOp' = "start_already"
                /\ botState' = r.state
                /\ UNCHANGED <<faulted, owed>>
           ELSE /\ botState' = r.state
                /\ owed' = owed \cup Entered(r.state)
                /\ faulted' = FALSE
                /\ lastOp' = "start"
    /\ lastSent' = <<>>
    /\ step' = [NoStep EXCEPT !.from = botState]
    /\ elapsed' = 0
    /\ UNCHANGED <<cfgInit, pc, wstate, oldState, handlers, lastTorn>>
    /\ UNCHANGED exchVars

\* RPC.rpc_stop, called on the thread of a registered handler
RpcStop ==
    /\ pc \in {"read", "dispatch"}
    /\ Len(handlers) > 0
    /\ LET r == rpc_stop(botState)
       IN  IF r.status = "stopping ..."
           THEN /\ botState' = r.state
                /\ owed' = owed \cup Entered(r.state)
                /\ lastOp' = "stop"
           ELSE /\ lastOp' = "stop_already"
                /\ botState' = r.state
                /\ UNCHANGED owed
    /\ lastSent' = <<>>
    /\ step' = [NoStep EXCEPT !.from = botState]
    /\ elapsed' = 0
    /\ UNCHANGED <<cfgInit, pc, wstate, oldState, handlers, lastTorn, faulted>>
    /\ UNCHANGED exchVars

\* SIGTERM / Ctrl-C: term_handler raises KeyboardInterrupt in the main
\* thread, which leaves Worker.run (Command.handle, lines 17-33)
Signal ==
    /\ pc \in {"read", "dispatch"}
    /\ pc' = "exit"
    /\ lastSent' = <<>>
    /\ lastOp' = "signal"
    /\ step' = [NoStep EXCEPT !.from = botState]
    /\ elapsed' = 0
    /\ UNCHANGED <<botState, cfgInit, wstate, oldState, handlers, lastTorn,
                   faulted, owed>>
    /\ UNCHANGED exchVars

\* Worker.exit, called from the finally clause of Command.handle
Exit ==
    /\ pc = "exit"
    /\ \E oc \in [SinkIds -> SinkOutcome], toc \in [SinkIds -> SinkOutcome] :
         LET s == notify_status(handlers, MsgStatus, oc)
             c == cleanup_loop(handlers, toc)
         IN  /\ lastSent' = <<s>>
             /\ IF s.raised
                THEN /\ step' = [NoStep EXCEPT !.from = botState]
                     /\ lastTorn' = <<>>
                     /\ UNCHANGED handlers
                ELSE /\ handlers' = c.left
                     /\ lastTorn' = c.torn
                     /\ step' = [hooks |-> <<"cleanup">>,
                                 raised |-> c.raised, from |-> botState]
    /\ pc' = "done"
    /\ lastOp' = "exit"
    /\ elapsed' = 0
    /\ UNCHANGED <<botState, cfgInit, wstate, oldState, faulted, owed>>
    /\ UNCHANGED exchVars

(***************************************************************************)
(* ultis/timeframe.py                                                      *)
(***************************************************************************)
\* milliseconds per second: the factor between tick timestamps and
\* _pairs_last_refresh_time
MsPerSec == 1000

\* parse_timeframe: amount * scale, in seconds
parse_timeframe(tf) ==
    CASE tf = "1m" -> 1 * 60
      [] tf = "5m" -> 5 * 60
      [] tf = "1h" -> 1 * (60 * 60)

timeframe_to_seconds(tf) == parse_timeframe(tf)

timeframe_to_minutes(tf) == parse_timeframe(tf) \div 60

timeframe_to_msecs(tf) == parse_timeframe(tf) * MsPerSec

\* dt_ts(datetime.now(utc)) for the model's clock
dt_ts(nowSec) == nowSec * MsPerSec

\* round_timeframe(timeframe, timestamp, direction), timestamp in ms
round_timeframe(tf, ts, up) ==
    LET ms == parse_timeframe(tf) * MsPerSec
        offset == ts % ms
    IN  ts - offset + (IF up THEN ms ELSE 0)

\* timeframe_to_prev_date(timeframe).timestamp(), seconds
timeframe_to_prev_date(tf, nowSec) ==
    round_timeframe(tf, dt_ts(nowSec), FALSE) \div MsPerSec

\* timeframe_to_next_date(timeframe).timestamp(), seconds
timeframe_to_next_date(tf, nowSec) ==
    round_timeframe(tf, dt_ts(nowSec), TRUE) \div MsPerSec

\* date_minus_candles(timeframe, candle_count).timestamp(), seconds
date_minus_candles(tf, candle_count, nowSec) ==
    timeframe_to_prev_date(tf, nowSec)
        - (timeframe_to_minutes(tf) * candle_count) * 60

(***************************************************************************)
(* data/converter.py                                                       *)
(***************************************************************************)
\* the missing value pandas puts into the empty bins of a resample
NaN == -1

SeqMax(S) == CHOOSE x \in S : \A y \in S : y <= x

SeqMin(S) == CHOOSE x \in S : \A y \in S : x <= y

RECURSIVE SortedSeq(_)
\* the elements of a set of integers, ascending
SortedSeq(S) ==
    IF S = {} THEN <<>>
    ELSE LET m == SeqMin(S) IN <<m>> \o SortedSeq(S \ {m})

\* DataFrame(ohlcv, columns=DEFAULT_DATAFRAME_COLUMNS): one row per tick
to_frame(ohlcv) ==
    [i \in 1..Len(ohlcv) |->
        [date |-> ohlcv[i][1], open |-> ohlcv[i][2], high |-> ohlcv[i][3],
         low |-> ohlcv[i][4], close |-> ohlcv[i][5], volume |-> ohlcv[i][6]]]

\* a dedup that keeps the last row of every date
groupby_date_keep_last(data) ==
    LET dates == SortedSeq({data[i].date : i \in 1..Len(data)})
    IN  [j \in 1..Len(dates) |->
            data[SeqMax({i \in 1..Len(data) : data[i].date = dates[j]})]]

\* data.groupby(by='date', as_index=False, sort=True).agg(first, max, min,
\* last, max)
groupby_date(data) ==
    LET dates == SortedSeq({data[i].date : i \in 1..Len(data)})
        idx(d) == {i \in 1..Len(data) : data[i].date = d}
    IN  [j \in 1..Len(dates) |->
            LET I == idx(dates[j])
            IN  [date |-> dates[j],
                 open |-> data[SeqMin(I)].open,
                 high |-> SeqMax({data[i].high : i \in I}),
                 low |-> SeqMin({data[i].low : i \in I}),
                 close |-> data[SeqMax(I)].close,
                 volume |-> SeqMax({data[i].volume : i \in I})]]

RECURSIVE SumOver(_, _)
SumOver(data, I) ==
    IF I = {} THEN 0
    ELSE LET i == SeqMin(I) IN data[i].volume + SumOver(data, I \ {i})

\* dataframe.resample(freq, on='date').agg(first, max, min, last, sum):
\* one row per bin of the grid between the first and the last row; a bin
\* without rows has NaN prices and volume 0
resample(data, tf) ==
    IF Len(data) = 0 THEN <<>>
    ELSE
    LET ms == timeframe_to_msecs(tf)
        bin(d) == d - (d % ms)
        first == bin(data[1].date)
        last == bin(data[Len(data)].date)
        n == ((last - first) \div ms) + 1
        idx(b) == {i \in 1..Len(data) : bin(data[i].date) = b}
    IN  [j \in 1..n |->
            LET b == first + (j - 1) * ms
                I == idx(b)
            IN  IF I = {}
                THEN [date |-> b, open |-> NaN, high |-> NaN, low |-> NaN,
                      close |-> NaN, volume |-> 0]
                ELSE [date |-> b,
                      open |-> data[SeqMin(I)].open,
                      high |-> SeqMax({data[i].high : i \in I}),
                      low |-> SeqMin({data[i].low : i \in I}),
                      close |-> data[SeqMax(I)].close,
                      volume |-> SumOver(data, I)]]

RECURSIVE ffill_close(_, _)
\* df['close'].ffill(): the close of row j after the forward fill
ffill_close(df, j) ==
    IF df[j].close # NaN \/ j = 1 THEN df[j].close
    ELSE ffill_close(df, j - 1)

\* a fill that puts 0 where a price is missing
fillna_zero(v, c) == IF v = NaN THEN 0 ELSE v

\* DataFrame.fillna(value=...): the missing value becomes c
fillna(v, c) == IF v = NaN THEN c ELSE v

\* a normaliser that leaves the gaps of the input open
ohlcv_no_fill(dataframe, tf) == dataframe

\* ohlcv_fill_up_missing_data(dataframe, timeframe, pair)
ohlcv_fill_up_missing_data(dataframe, tf) ==
    LET df == resample(dataframe, tf)
    IN  [j \in 1..Len(df) |->
            LET c == ffill_close(df, j)
            IN  [date |-> df[j].date,
                 open |-> fillna(df[j].open, c),
                 high |-> fillna(df[j].high, c),
                 low |-> fillna(df[j].low, c),
                 close |-> c,
                 volume |-> df[j].volume]]

\* a drop whose result is thrown away
drop_nothing(data) == data

\* data.drop(data.tail(1).index)
drop_tail(data) ==
    IF Len(data) = 0 THEN data ELSE SubSeq(data, 1, Len(data) - 1)

\* clean_ohlcv_dataframe(data, timeframe, pair, fill_missing, drop_incomplete)
clean_ohlcv_dataframe(data, tf, fill_missing, drop_incomplete) ==
    LET g == groupby_date(data)
        d == IF drop_incomplete THEN drop_tail(g) ELSE g
    IN  IF fill_missing THEN ohlcv_fill_up_missing_data(d, tf) ELSE d

\* ohlcv_to_dataframe(ohlcv, timeframe, pair, fill_missing, drop_incomplete)
ohlcv_to_dataframe(ohlcv, tf, fill_missing, drop_incomplete) ==
    clean_ohlcv_dataframe(to_frame(ohlcv), tf, fill_missing, drop_incomplete)

\* a trim that keeps the oldest rows
tail_head(df, n) == IF Len(df) <= n THEN df ELSE SubSeq(df, 1, n)

\* DataFrame.tail(n)
tail(df, n) ==
    IF Len(df) <= n THEN df ELSE SubSeq(df, Len(df) - n + 1, Len(df))

(***************************************************************************)
(* exchange.py                                                             *)
(***************************************************************************)
\* SpecSeq: clock steps, rows per fetch, distance between fetched rows,
\* periods a fetch may lag behind the open period, distinct prices
MaxClock == 2
MaxTicks == 2
MaxStride == 2
TickBack == 1
MaxPrice == 1
\* SpecRefresh: the same, for two threads
ParClock == 1
ParTicks == 2
ParStride == 2
ParBack == 0
ParPrice == 1

\* the inputs of the runs in which the threads contend for the lock
FairClock == 1
FairTicks == 1
FairStride == 1
FairBack == 0
FairPrice == 1
\* SpecBatch: the same, for two keys in one call
BatchClock == 1
BatchTicks == 2
BatchStride == 1
BatchBack == 1
BatchPrice == 1

\* SpecMerge: rows per fetch, distance between fetched rows, periods a
\* fetch may lag behind the open period, distinct prices
MergeTicks == 2
MergeStride == 2
MergeBack == 2
MergePrice == 2

\* SpecClean: rows of an input series, periods it spans, distinct prices
\* SpecPages: since_ms of the calls that ask for history, in ms
PageSince == 1
PageClock == 1
PageTicks == 1
PageStride == 1
PageBack == 1
PagePrice == 1

\* SpecSkip
SkipClock == 1
SkipTicks == 2
SkipStride == 1
SkipBack == 1
SkipPrice == 1

\* SpecRead
ReadClock == 1
ReadTicks == 2
ReadStride == 1
ReadBack == 1
ReadPrice == 1

\* SpecAnalyze
AnClock == 1
AnTicks == 2
AnStride == 1
AnBack == 1
AnPrice == 1

\* the inputs of the runs of the analysis over three candles
CandleClock == 2
CandleTicks == 2
CandleStride == 1
CandleBack == 1
CandlePrice == 1

CleanRows == 2
CleanGap == 3
CleanPrice == 2

Threads == {"loop", "rpc"}

\* the keys of the pairs Bot.loop_update refreshes
KeyBTC == <<"BTC/USDT", "5m", "spot">>

KeyETH == <<"ETH/USDT", "5m", "spot">>

Keys == {KeyBTC, KeyETH}

\* keys of the shortest listed timeframe
KeyMinBTC == <<"BTC/USDT", "1m", "spot">>

KeyMinETH == <<"ETH/USDT", "1m", "spot">>

\* keys with a timeframe that Exchange.timeframes does not list
KeyHourSpot == <<"BTC/USDT", "1h", "spot">>

KeyHourFutures == <<"BTC/USDT", "1h", "futures">>

KeyHourMark == <<"BTC/USDT", "1h", "mark">>

\* Exchange.timeframes
timeframes == {"1m", "5m"}

\* Exchange.ohlcv_candle_limit
ohlcv_candle_limit(tf, ctype) == 1

\* Exchange.startup_candle_count
startup_candle_count == 1

\* Exchange.required_candle_call_count
required_candle_call_count == 1

\* Exchange.ohlcv_require_since
ohlcv_require_since == TRUE

\* Exchange.ohlcv_partial_candle, returned as drop_hint with every result
ohlcv_partial_candle == TRUE

\* the batch size refresh_latest_ohlcv passes to chunks()
ChunkSize == 100

\* the clock starts in the middle of a period and advances by half a period
StartNow == 10 * parse_timeframe("5m") + parse_timeframe("5m") \div 2

ClockStep == parse_timeframe("5m") \div 2

EmptyDict == [x \in {} |-> 0]

DictGet(d, k, default) == IF k \in DOMAIN d THEN d[k] ELSE default

DictSet(d, k, v) == [x \in (DOMAIN d) \cup {k} |-> IF x = k THEN v ELSE d[x]]

DictDel(d, k) == [x \in (DOMAIN d) \ {k} |-> d[x]]

\* a freshness test that never asks for a fetch
now_is_time_to_refresh_never(k, lr, nowSec) == FALSE

\* a freshness test that also refreshes on the boundary
now_is_time_to_refresh_le(k, lr, nowSec) ==
    DictGet(lr, k, 0) + timeframe_to_seconds(k[2])
        <= timeframe_to_prev_date(k[2], nowSec)

\* Exchange._now_is_time_to_refresh
now_is_time_to_refresh(k, lr, nowSec) ==
    LET interval_in_sec == timeframe_to_seconds(k[2])
        plr == DictGet(lr, k, 0) + interval_in_sec
        nowp == timeframe_to_prev_date(k[2], nowSec)
    IN  plr < nowp

\* Exchange._build_coroutine: the eviction it may do and the coroutine it
\* returns (since_ms = 0 stands for None)
build_coroutine(k, since_ms, cache, kl, lr, nowSec) ==
    LET tf == k[2]
        inCache == cache /\ k \in DOMAIN kl
        candle_limit == ohlcv_candle_limit(tf, k[3])
        min_date == date_minus_candles(tf, candle_limit - 5, nowSec)
        last_refresh_time == DictGet(lr, k, 0)
        usable == min_date < last_refresh_time
        not_all_data ==
            IF inCache /\ usable THEN FALSE
            ELSE cache /\ required_candle_call_count > 1
        evict == inCache /\ ~usable
        one_call == timeframe_to_msecs(tf) * ohlcv_candle_limit(tf, k[3])
        move_to == one_call * required_candle_call_count
        since2 ==
            IF since_ms = 0 /\ (ohlcv_require_since \/ not_all_data)
            THEN (timeframe_to_next_date(tf, nowSec)
                    - (move_to \div MsPerSec)) * MsPerSec
            ELSE since_ms
    IN  [klines |-> IF evict THEN DictDel(kl, k) ELSE kl,
         evicted |-> evict,
         job |-> [key |-> k, since |-> since2,
                  kind |-> IF since2 # 0 THEN "historic" ELSE "single"]]

\* Exchange._async_get_historic_ohlcv: the number of pages,
\* len(range(since_ms, dt_ts(), one_call))
historic_pages(job, nowSec) ==
    LET tf == job.key[2]
        one_call == timeframe_to_msecs(tf)
                        * ohlcv_candle_limit(tf, job.key[3])
        span == dt_ts(nowSec) - job.since
    IN  IF span <= 0 THEN 0 ELSE (span + one_call - 1) \div one_call

\* the candle lists the exchange may answer with: rows on the period grid,
\* ascending, starting up to TickBack periods before the open period
TickLists(tf, nowSec) ==
    LET cur == timeframe_to_prev_date(tf, nowSec) * MsPerSec
        ms == timeframe_to_msecs(tf)
    IN  { [i \in 1..n |->
              <<cur + (off + (i - 1) * stride) * ms, p, p, p, p, p>>] :
          n \in 0..env.ticks, off \in (0 - env.back)..0,
          stride \in 1..env.stride, p \in 1..env.price }

\* a bookkeeping that always takes the last fetched row
last_closed_idx_last(ticks, drop_incomplete) == Len(ticks)

\* Exchange._process_ohlcv_df, line 395: the position of the row whose
\* period is recorded as last closed (-2 or -1 from the end)
last_closed_idx(ticks, drop_incomplete) ==
    IF drop_incomplete /\ Len(ticks) > 1 THEN Len(ticks) - 1 ELSE Len(ticks)

\* a cache update that keeps everything it merges
process_ohlcv_df_untrimmed(k, ticks, cache, drop_incomplete, kl, lr) ==
    LET tf == k[2]
        ohlcv_df == ohlcv_to_dataframe(ticks, tf, TRUE, drop_incomplete)
        merged == clean_ohlcv_dataframe(kl[k] \o ohlcv_df, tf, TRUE, FALSE)
        inCache == cache /\ k \in DOMAIN kl
        df == IF inCache THEN merged ELSE ohlcv_df
    IN  [df |-> df,
         klines |-> IF cache THEN DictSet(kl, k, df) ELSE kl,
         lastRefresh |->
            IF Len(ticks) > 0 /\ cache
            THEN DictSet(lr, k,
                    ticks[IF drop_incomplete /\ Len(ticks) > 1
                          THEN Len(ticks) - 1 ELSE Len(ticks)][1]
                        \div MsPerSec)
            ELSE lr,
         merged |-> inCache,
         fetched |-> ohlcv_df,
         fullLen |-> IF inCache THEN Len(merged) ELSE Len(ohlcv_df)]

\* Exchange._process_ohlcv_df
\* a store that caches whatever the call asks for
process_ohlcv_df_stored(k, ticks, cache, drop_incomplete, kl, lr) ==
    process_ohlcv_df_untrimmed(k, ticks, TRUE, drop_incomplete, kl, lr)

\* a store that records no last closed period
process_ohlcv_df_unrecorded(k, ticks, cache, drop_incomplete, kl, lr) ==
    [process_ohlcv_df_untrimmed(k, ticks, cache, drop_incomplete, kl, lr)
        EXCEPT !.lastRefresh = lr]

process_ohlcv_df(k, ticks, cache, drop_incomplete, kl, lr) ==
    LET tf == k[2]
        idx == last_closed_idx(ticks, drop_incomplete)
        lr2 == IF Len(ticks) > 0 /\ cache
               THEN DictSet(lr, k, ticks[idx][1] \div MsPerSec)
               ELSE lr
        ohlcv_df == ohlcv_to_dataframe(ticks, tf, TRUE, drop_incomplete)
        inCache == cache /\ k \in DOMAIN kl
        merged == clean_ohlcv_dataframe(kl[k] \o ohlcv_df, tf, TRUE, FALSE)
        candle_limit == ohlcv_candle_limit(tf, k[3])
        df == IF inCache
              THEN tail(merged, candle_limit + startup_candle_count)
              ELSE ohlcv_df
    IN  [df |-> df,
         klines |-> IF cache THEN DictSet(kl, k, df) ELSE kl,
         lastRefresh |-> lr2,
         merged |-> inCache,
         fetched |-> ohlcv_df,
         fullLen |-> IF inCache THEN Len(merged) ELSE Len(ohlcv_df)]

\* a read that hands out the cached object whatever the caller asks for
klines_read_live(kl, k, copy) ==
    IF k \in DOMAIN kl
    THEN [df |-> kl[k], alias |-> TRUE]
    ELSE [df |-> <<>>, alias |-> FALSE]

\* a read that copies whatever the caller asks for
klines_read_copy(kl, k, copy) ==
    IF k \in DOMAIN kl
    THEN [df |-> kl[k], alias |-> FALSE]
    ELSE [df |-> <<>>, alias |-> FALSE]

\* Exchange.klines(pair_interval, copy): alias tells whether the returned
\* frame is the object held in _klines
klines_read(kl, k, copy) ==
    IF k \in DOMAIN kl
    THEN [df |-> kl[k], alias |-> ~copy]
    ELSE [df |-> <<>>, alias |-> FALSE]

\* CandleType.from_string
from_string(value) == IF value = "" THEN "spot" ELSE value

\* a DataProvider.ohlcv that hands out the cached object
dp_ohlcv_live(kl, pair, timeframe, copy, candle_type) ==
    klines_read(kl, <<pair, timeframe, from_string(candle_type)>>, FALSE)

\* DataProvider.ohlcv(pair, timeframe, copy, candle_type)
dp_ohlcv(kl, pair, timeframe, copy, candle_type) ==
    klines_read(kl, <<pair, timeframe, from_string(candle_type)>>, copy)

\* `dataframe.loc[:, c] = ''`: the column c is set on the frame, in place
set_column(df, c) == [i \in 1..Len(df) |-> (c :> "") @@ df[i]]

\* `c in dataframe`
has_column(df, c) == Len(df) > 0 /\ c \in DOMAIN df[1]

\* the pairs Bot.loop_update refreshes and analyses, in list order
active_pair_whitelist == <<KeyBTC[1], KeyETH[1]>>

\* what the populate_* hooks of the strategy do to the frame they are given:
\* set the entry signal, set nothing (the hooks of BaseStrategy), set the
\* signal and add a row, set the signal and overwrite the last close
StrategyEffects == {"signals", "none", "grow", "close"}

\* populate_entry_trend of the strategy in use, working in place
populate_entry_trend(df, e) ==
    LET d == set_column(df, "enter_long")
    IN  CASE e = "signals" -> d
          [] e = "none" -> df
          [] e = "grow" -> Append(d, d[Len(d)])
          [] e = "close" -> [d EXCEPT ![Len(d)].close = 0]

\* a publish that announces a new candle every time
emit_df_always_new(pair, dataframe, new_candle, nowSec) ==
    <<[type |-> "ANALYZED_DF",
       data |-> [key |-> pair, df |-> tail(dataframe, 1), la |-> nowSec]],
      [type |-> "NEW_CANDLE", data |-> pair]>>

\* DataProvider.emit_df: the messages handed to bot.rpc.send_msg, in order
emit_df(pair, dataframe, new_candle, nowSec) ==
    <<[type |-> "ANALYZED_DF",
       data |-> [key |-> pair, df |-> tail(dataframe, 1), la |-> nowSec]]>>
    \o (IF new_candle THEN <<[type |-> "NEW_CANDLE", data |-> pair]>>
        ELSE <<>>)

\* an analysis that runs for every series it is given
analyze_frame_every_cycle(dataframe, pair, seen, onlyNew, e, removed, nowSec) ==
    LET last_candle == DictGet(seen, pair, NaN)
        new_candle == last_candle # dataframe[Len(dataframe)].date
        d2 == populate_entry_trend(set_column(dataframe, "enter_tag"), e)
        ret == set_column(d2, "exit_tag")
    IN  [launched |-> TRUE, new |-> new_candle,
         frame |-> IF has_column(d2, "enter_long") THEN ret ELSE d2,
         df |-> ret,
         seen |-> DictSet(seen, pair, ret[Len(ret)].date),
         sent |-> emit_df(<<pair, "5m", "spot">>, ret, new_candle, nowSec)]

\* BaseStrategy._analyze(dataframe, pair=pair): `frame` is the caller's
\* object after the call, `df` the frame stored and published. The frame
\* advise_entry returns is the caller's object when it has the column
\* enter_long and a renamed copy otherwise; removed tells whether
\* remove_entry_exit_signals sets the signal columns in place
analyze_frame(dataframe, pair, seen, onlyNew, e, removed, nowSec) ==
    LET last_candle == DictGet(seen, pair, NaN)
        new_candle == last_candle # dataframe[Len(dataframe)].date
        d1 == set_column(dataframe, "enter_tag")
        d2 == populate_entry_trend(d1, e)
        same == has_column(d2, "enter_long")
        ret == set_column(d2, "exit_tag")
    IN  IF ~onlyNew \/ new_candle
        THEN [launched |-> TRUE, new |-> new_candle,
              frame |-> IF same THEN ret ELSE d2,
              df |-> ret,
              seen |-> DictSet(seen, pair, ret[Len(ret)].date),
              sent |-> emit_df(<<pair, "5m", "spot">>, ret, new_candle,
                               nowSec)]
        ELSE [launched |-> FALSE, new |-> new_candle,
              frame |-> IF removed THEN set_column(dataframe, "enter_long")
                        ELSE dataframe,
              df |-> <<>>,
              seen |-> seen,
              sent |-> <<>>]

\* checks that find nothing
assert_df_pass(dataframe, df_len, df_close, df_date, checksOff) ==
    [message |-> "", result |-> "pass"]

\* BaseStrategy.assert_df
assert_df(dataframe, df_len, df_close, df_date, checksOff) ==
    LET message ==
          IF ~has_column(dataframe, "enter_long")
          THEN "enter_long/buy column not set."
          ELSE IF df_len # Len(dataframe) THEN "length"
          ELSE IF df_close # dataframe[Len(dataframe)].close
          THEN "last close price"
          ELSE IF df_date # dataframe[Len(dataframe)].date THEN "last date"
          ELSE ""
    IN  [message |-> message,
         result |-> IF message = "" THEN "pass"
                    ELSE IF checksOff THEN "warning"
                    ELSE "StrategyError"]

\* the requests a fetch task has in flight once it runs: one for
\* _async_get_candle_history; for _async_get_historic_ohlcv the pages of
\* its first chunk, gathered at once (exchange.py 254-265)
requests_in_flight(job, nowSec) ==
    IF job.kind = "historic"
    THEN IF historic_pages(job, nowSec) < ChunkSize
         THEN historic_pages(job, nowSec) ELSE ChunkSize
    ELSE 1

\* a result loop that takes every result for a tuple
is_exception_never(r) == FALSE

\* isinstance(res, Exception) in the result loop of refresh_latest_ohlcv
is_exception(r) == r.status = "exc"

\* chunks(lst, n) of ultis/misc: the part of lst that starts after base
chunk_at(lst, base, n) ==
    SubSeq(lst, base + 1, IF base + n < Len(lst) THEN base + n ELSE Len(lst))

NoKey == <<"", "", "">>

\* what one iteration of the job loop found and decided for its key
NoDec == [cachedBefore |-> FALSE, hasLast |-> FALSE, last |-> 0, cur |-> 0,
          cache |-> FALSE, evicted |-> FALSE, kind |-> "none"]

\* what a step of the result loop was given: the number of fetched rows, the
\* timestamps of the last and the second-to-last of them, the effective
\* drop_incomplete, what was held for the key before the step, and the
\* frame made of the fetched rows
NoIO == [on |-> FALSE, n |-> 0, last |-> 0, prev |-> 0, drop |-> FALSE,
         cache |-> FALSE, cachedBefore |-> FALSE, hadLast |-> FALSE,
         lastBefore |-> 0, old |-> <<>>, fetched |-> <<>>]

NoOp == [name |-> "init", t |-> "none", key |-> NoKey, merged |-> FALSE,
         fullLen |-> 0, dec |-> NoDec, io |-> NoIO]

\* what the properties remember of a thread's previous call; the fields
\* kl0 and lr0 of a frame are _klines and _pairs_last_refresh_time as the
\* call found them
NoPrev == [fresh |-> {}, p0 |-> 0]

Frame0 == [pc |-> "idle", pairs |-> {}, cache |-> TRUE, drop |-> "None",
           since |-> 0, kl0 |-> EmptyDict, lr0 |-> EmptyDict,
           todo |-> {}, jobs |-> <<>>, cachedPairs |-> <<>>, base |-> 0,
           results |-> <<>>, ri |-> 1, out |-> EmptyDict,
           p0 |-> 0, p1 |-> 0, ncalls |-> 0, prev |-> NoPrev]

\* no converter run
NoConv == [stage |-> "off", data |-> <<>>, fill |-> FALSE, drop |-> FALSE,
           once |-> <<>>, twice |-> <<>>]

\* nobody holds a frame read from the cache
NoRead == [stage |-> "none", key |-> NoKey, copy |-> TRUE, df |-> <<>>,
           alias |-> FALSE]

\* the entry of k in _klines is deleted or rebound to a new frame: a frame
\* read from it earlier is no longer the cached object
unheld(r, k) == IF r.alias /\ r.key = k THEN [r EXCEPT !.alias = FALSE] ELSE r

\* what the last call of BaseStrategy.analyze did
NoRun == [on |-> FALSE, pair |-> "", kind |-> "none", new |-> FALSE,
          read |-> <<>>, frame |-> <<>>, df |-> <<>>, sent |-> <<>>,
          message |-> "", warned |-> FALSE, raised |-> FALSE,
          escaped |-> FALSE]

\* BaseStrategy.__init__ (base.py 40-45) and Bot.loop_update not running
NoAn == [pc |-> "idle", todo |-> <<>>, seen |-> EmptyDict,
         checksOff |-> FALSE, onlyNew |-> TRUE, last |-> NoRun]

\* Exchange.__init__
NewExchange(e) ==
    /\ env = e
    /\ now = StartNow
    /\ klines = EmptyDict
    /\ lastRefresh = EmptyDict
    /\ loopLock = "free"
    /\ th = [t \in Threads |-> Frame0]
    /\ hist = NoOp

InitExch(e) ==
    /\ NewExchange(e)
    /\ conv = NoConv
    /\ rd = NoRead
    /\ an = NoAn

\* the period that is open now, for the timeframe the bot trades
CurPeriod == timeframe_to_prev_date("5m", now)

\* the keys of the last call whose fetch was stored with a last closed
\* period that is the previous period or a later one
FreshKeys(f) ==
    {k \in DOMAIN f.out :
        /\ f.cache
        /\ f.out[k].via = "fetch"
        /\ k \in DOMAIN lastRefresh
        /\ lastRefresh[k] + timeframe_to_seconds(k[2]) >= CurPeriod}

\* the frame of a call of refresh_latest_ohlcv(pair_list, since_ms=since_ms,
\* cache=cache, drop_incomplete=drop) made from the frame f of the thread's
\* last call (since_ms = 0 stands for None)
enter_call(f, pairs, since_ms, cache, drop) ==
    [f EXCEPT !.pc = IF pairs = {} THEN "cached" ELSE "build",
              !.pairs = pairs, !.cache = cache, !.drop = drop,
              !.since = since_ms,
              !.kl0 = IF env.record THEN klines ELSE EmptyDict,
              !.lr0 = IF env.record THEN lastRefresh ELSE EmptyDict,
              !.todo = pairs, !.jobs = <<>>,
              !.cachedPairs = <<>>, !.base = 0,
              !.results = <<>>, !.ri = 1, !.out = EmptyDict,
              !.p0 = CurPeriod, !.p1 = 0,
              !.ncalls = IF @ < 2 THEN @ + 1 ELSE @,
              !.prev = [fresh |-> FreshKeys(f), p0 |-> f.p0]]

\* a test that skips every key whose timeframe the exchange does not list
unsupported_timeframe_any_kind(k) == k[2] \notin timeframes

\* the test of lines 106-109 of _build_ohlcv_dl_jobs: the key is skipped
unsupported_timeframe(k) ==
    k[2] \notin timeframes /\ k[3] \in {"spot", "futures"}

\* refresh_latest_ohlcv is entered (lines 137-161, before the job loop)
Call(t) ==
    /\ th[t].pc = "idle"
    /\ \E pairs \in SUBSET env.keys[t], cache \in env.caches,
          drop \in env.drops, since_ms \in env.sinces :
         th' = [th EXCEPT ![t] =
                  enter_call(th[t], pairs, since_ms, cache, drop)]
    /\ hist' = [NoOp EXCEPT !.name = "call", !.t = t]
    /\ UNCHANGED <<now, klines, lastRefresh, loopLock>>
    /\ UNCHANGED <<env, conv, rd, an>>
    /\ UNCHANGED schedVars

\* one iteration of the loop of _build_ohlcv_dl_jobs (lines 105-133)
BuildJob(t) ==
    /\ th[t].pc = "build"
    /\ \E k \in th[t].todo :
         LET f == th[t]
             todo2 == f.todo \ {k}
             unsupported == unsupported_timeframe(k)
             fetch == \/ ~f.cache
                      \/ k \notin DOMAIN klines
                      \/ now_is_time_to_refresh(k, lastRefresh, now)
             b == build_coroutine(k, f.since, f.cache, klines, lastRefresh,
                                  now)
             jobs2 == IF ~unsupported /\ fetch
                      THEN Append(f.jobs, b.job) ELSE f.jobs
             cached2 == IF ~unsupported /\ ~fetch
                        THEN Append(f.cachedPairs, k) ELSE f.cachedPairs
             d == [cachedBefore |-> k \in DOMAIN klines,
                   hasLast |-> k \in DOMAIN lastRefresh,
                   last |-> DictGet(lastRefresh, k, 0),
                   cur |-> timeframe_to_prev_date(k[2], now),
                   cache |-> f.cache,
                   evicted |-> ~unsupported /\ fetch /\ b.evicted,
                   kind |-> IF unsupported THEN "skip"
                            ELSE IF fetch THEN b.job.kind ELSE "cache"]
         IN  /\ klines' = IF ~unsupported /\ fetch THEN b.klines ELSE klines
             /\ th' = [th EXCEPT ![t] =
                  [@ EXCEPT !.todo = todo2, !.jobs = jobs2,
                            !.cachedPairs = cached2,
                            !.pc = IF todo2 # {} THEN "build"
                                   ELSE IF Len(jobs2) = 0 THEN "cached"
                                   ELSE "lock"]]
             /\ hist' = [NoOp EXCEPT !.name = "build", !.t = t, !.key = k,
                                     !.dec = d]
             /\ rd' = IF d.evicted THEN unheld(rd, k) ELSE rd
    /\ UNCHANGED <<now, lastRefresh, loopLock>>
    /\ UNCHANGED <<env, conv, an>>
    /\ UNCHANGED schedVars

\* a lock that lets everybody in
AcquireUnlocked(t) ==
    /\ th[t].pc = "lock"
    /\ loopLock' = t
    /\ th' = [th EXCEPT ![t] =
          [@ EXCEPT !.pc = "gather",
                    !.results =
                       [i \in 1..Len(chunk_at(th[t].jobs, th[t].base,
                                              ChunkSize)) |->
                           [status |-> "pending", ticks |-> <<>>]]]]
    /\ hist' = [NoOp EXCEPT !.name = "acquire", !.t = t]
    /\ UNCHANGED <<now, klines, lastRefresh>>
    /\ UNCHANGED <<env, conv, rd, an>>
    /\ UNCHANGED schedVars

\* `with self._loop_lock:` is entered and run_until_complete starts the
\* batch (lines 166-171)
Acquire(t) ==
    /\ th[t].pc = "lock"
    /\ loopLock = "free"
    /\ loopLock' = t
    /\ th' = [th EXCEPT ![t] =
          [@ EXCEPT !.pc = "gather",
                    !.results =
                       [i \in 1..Len(chunk_at(th[t].jobs, th[t].base,
                                              ChunkSize)) |->
                           [status |-> "pending", ticks |-> <<>>]]]]
    /\ hist' = [NoOp EXCEPT !.name = "acquire", !.t = t]
    /\ UNCHANGED <<now, klines, lastRefresh>>
    /\ UNCHANGED <<env, conv, rd, an>>
    /\ UNCHANGED schedVars

\* one fetch task of the running batch completes: _async_get_historic_ohlcv
\* (lines 254-281) or _async_get_candle_history (lines 341-387)
Task(t) ==
    /\ th[t].pc = "gather"
    /\ \E i \in 1..Len(th[t].results) :
         /\ th[t].results[i].status = "pending"
         /\ LET job == th[t].jobs[th[t].base + i]
                pages == IF job.kind = "historic"
                         THEN historic_pages(job, now) ELSE 1
            IN  \E r \in {[status |-> "exc", ticks |-> <<>>]} \cup
                         {[status |-> "ok", ticks |-> tk] :
                             tk \in TickLists(job.key[2], now)} :
                  /\ pages = 0 => (r.status = "ok" /\ r.ticks = <<>>)
                  /\ th' = [th EXCEPT ![t].results[i] = r]
                  /\ hist' = [NoOp EXCEPT !.name = "task", !.t = t,
                                          !.key = job.key]
    /\ UNCHANGED <<now, klines, lastRefresh, loopLock>>
    /\ UNCHANGED <<env, conv, rd, an>>
    /\ UNCHANGED schedVars

\* a batch that ends without giving the lock up
ReleaseHeld(t) ==
    /\ th[t].pc = "gather"
    /\ \A i \in 1..Len(th[t].results) : th[t].results[i].status # "pending"
    /\ th' = [th EXCEPT ![t] = [@ EXCEPT !.pc = "process", !.ri = 1]]
    /\ hist' = [NoOp EXCEPT !.name = "release", !.t = t]
    /\ UNCHANGED <<now, klines, lastRefresh, loopLock>>
    /\ UNCHANGED <<env, conv, rd, an>>
    /\ UNCHANGED schedVars

\* run_until_complete returns and the with block is left (line 171)
Release(t) ==
    /\ th[t].pc = "gather"
    /\ \A i \in 1..Len(th[t].results) : th[t].results[i].status # "pending"
    /\ loopLock' = "free"
    /\ th' = [th EXCEPT ![t] = [@ EXCEPT !.pc = "process", !.ri = 1]]
    /\ hist' = [NoOp EXCEPT !.name = "release", !.t = t]
    /\ UNCHANGED <<now, klines, lastRefresh>>
    /\ UNCHANGED <<env, conv, rd, an>>
    /\ UNCHANGED schedVars

\* one iteration of `for res in results` (lines 173-188)
Process(t) ==
    /\ th[t].pc = "process"
    /\ LET f == th[t]
           r == f.results[f.ri]
           k == f.jobs[f.base + f.ri].key
           drop_incomplete_ == IF f.drop = "None" THEN ohlcv_partial_candle
                               ELSE f.drop = "True"
           p == process_ohlcv_df(k, r.ticks, f.cache, drop_incomplete_,
                                 klines, lastRefresh)
           lastOfChunk == f.ri = Len(f.results)
           more == f.base + ChunkSize < Len(f.jobs)
           pc2 == IF ~lastOfChunk THEN "process"
                  ELSE IF more THEN "lock" ELSE "cached"
           base2 == IF lastOfChunk /\ more THEN f.base + ChunkSize ELSE f.base
           seen == [r EXCEPT !.ticks = <<>>]
           n == Len(r.ticks)
           io == [on |-> TRUE, n |-> n,
                  last |-> IF n > 0 THEN r.ticks[n][1] ELSE 0,
                  prev |-> IF n > 1 THEN r.ticks[n - 1][1] ELSE 0,
                  drop |-> drop_incomplete_, cache |-> f.cache,
                  cachedBefore |-> k \in DOMAIN klines,
                  hadLast |-> k \in DOMAIN lastRefresh,
                  lastBefore |-> DictGet(lastRefresh, k, 0),
                  old |-> DictGet(klines, k, <<>>),
                  fetched |-> p.fetched]
       IN  IF is_exception(r)
           THEN /\ th' = [th EXCEPT ![t] =
                     [@ EXCEPT !.ri = IF lastOfChunk THEN 1 ELSE f.ri + 1,
                               !.pc = pc2, !.base = base2,
                               !.results[f.ri] = seen]]
                /\ hist' = [NoOp EXCEPT !.name = "skip", !.t = t, !.key = k]
                /\ UNCHANGED <<klines, lastRefresh, rd>>
           ELSE IF r.status = "exc"
           THEN \* unpacking a result that is no tuple raises (line 179)
                /\ th' = [th EXCEPT ![t] = [@ EXCEPT !.pc = "raised"]]
                /\ hist' = [NoOp EXCEPT !.name = "raise", !.t = t, !.key = k]
                /\ UNCHANGED <<klines, lastRefresh, rd>>
           ELSE /\ klines' = p.klines
                /\ lastRefresh' = p.lastRefresh
                /\ th' = [th EXCEPT ![t] =
                     [@ EXCEPT !.ri = IF lastOfChunk THEN 1 ELSE f.ri + 1,
                               !.pc = pc2, !.base = base2,
                               !.results[f.ri] = seen,
                               !.out = DictSet(f.out, k,
                                   [df |-> p.df, alias |-> f.cache,
                                    via |-> "fetch"])]]
                /\ hist' = [NoOp EXCEPT !.name = "process", !.t = t,
                                        !.key = k, !.merged = p.merged,
                                        !.fullLen = p.fullLen,
                                        !.io = IF env.record THEN io ELSE NoIO]
                /\ rd' = IF f.cache THEN unheld(rd, k) ELSE rd
    /\ UNCHANGED <<now, loopLock>>
    /\ UNCHANGED <<env, conv, an>>
    /\ UNCHANGED schedVars

RECURSIVE add_cached(_, _, _, _)
\* the loop over cached_pairs (lines 190-195)
add_cached(out, cp, i, kl) ==
    IF i > Len(cp) THEN out
    ELSE LET r == klines_read(kl, cp[i], FALSE)
         IN  add_cached(DictSet(out, cp[i],
                            [df |-> r.df, alias |-> r.alias,
                             via |-> "cache"]),
                        cp, i + 1, kl)

\* the cached pairs are added and refresh_latest_ohlcv returns
\* (lines 190-197)
ReturnCached(t) ==
    /\ th[t].pc = "cached"
    /\ th' = [th EXCEPT ![t] =
          [@ EXCEPT !.pc = "idle",
                    !.out = add_cached(th[t].out, th[t].cachedPairs, 1,
                                       klines),
                    !.p1 = CurPeriod]]
    /\ hist' = [NoOp EXCEPT !.name = "return", !.t = t]
    /\ UNCHANGED <<now, klines, lastRefresh, loopLock>>
    /\ UNCHANGED <<env, conv, rd, an>>
    /\ UNCHANGED schedVars

\* time passes
Tick ==
    /\ now < StartNow + env.clock * ClockStep
    /\ now' = now + ClockStep
    /\ hist' = [NoOp EXCEPT !.name = "tick"]
    /\ UNCHANGED <<klines, lastRefresh, loopLock, th>>
    /\ UNCHANGED <<env, conv, rd, an>>
    /\ UNCHANGED schedVars

(***************************************************************************)
(* Specifications                                                          *)
(***************************************************************************)
\* the inputs of a run that leaves the Exchange alone
NoEnv == [keys |-> [t \in Threads |-> {}], caches |-> {TRUE},
          drops |-> {"None"}, clock |-> 0, ticks |-> 0, stride |-> 1,
          back |-> 0, price |-> 1, record |-> FALSE,
          sinces |-> {0}]

SeqEnv == [keys |-> [t \in Threads |-> IF t = "loop" THEN {KeyBTC} ELSE {}],
           caches |-> BOOLEAN, drops |-> {"None", "True", "False"},
           clock |-> MaxClock, ticks |-> MaxTicks, stride |-> MaxStride,
           back |-> TickBack, price |-> MaxPrice, record |-> TRUE,
          sinces |-> {0}]

ParEnv == [keys |-> [t \in Threads |-> {KeyBTC}],
           caches |-> {TRUE}, drops |-> {"None", "False"},
           clock |-> ParClock, ticks |-> ParTicks, stride |-> ParStride,
           back |-> ParBack, price |-> ParPrice, record |-> FALSE,
          sinces |-> {0}]

BatchEnv == [keys |-> [t \in Threads |-> IF t = "loop" THEN Keys ELSE {}],
             caches |-> BOOLEAN, drops |-> {"None"},
             clock |-> BatchClock, ticks |-> BatchTicks,
             stride |-> BatchStride, back |-> BatchBack,
             price |-> BatchPrice, record |-> FALSE,
          sinces |-> {0}]

\* the state of Bot and Worker after construction with the shipped settings
IdleSched ==
    /\ cfgInit = "STARTED"
    /\ botState = "STARTED"
    /\ pc = "read"
    /\ wstate = NoState
    /\ oldState = NoState
    /\ handlers = <<1>>
    /\ lastSent = <<>>
    /\ lastTorn = <<>>
    /\ lastOp = "init"
    /\ faulted = FALSE
    /\ step = NoStep
    /\ owed = {}
    /\ elapsed = 0

Init == InitSched /\ InitExch(NoEnv)

Next ==
    \/ WorkerRead
    \/ Running
    \/ Stopped
    \/ Idle
    \/ RpcStart
    \/ RpcStop
    \/ Signal
    \/ Exit

\* the run loop, the control channel and the fan-out
Spec == Init /\ [][Next]_vars

RefreshStep(t) ==
    \/ Call(t)
    \/ BuildJob(t)
    \/ Acquire(t)
    \/ Task(t)
    \/ Release(t)
    \/ Process(t)
    \/ ReturnCached(t)

InitRefresh == IdleSched /\ InitExch(ParEnv)

NextRefresh ==
    \/ \E t \in Threads : RefreshStep(t)
    \/ Tick

\* refresh cycles of the run-loop thread and of a control-channel thread
SpecRefresh == InitRefresh /\ [][NextRefresh]_vars

FairEnv == [keys |-> [t \in Threads |-> {KeyBTC}],
            caches |-> BOOLEAN, drops |-> {"None"},
            clock |-> FairClock, ticks |-> FairTicks, stride |-> FairStride,
            back |-> FairBack, price |-> FairPrice, record |-> FALSE,
            sinces |-> {0}]

InitFair == IdleSched /\ InitExch(FairEnv)

\* the scheduling of a fetch batch: the event loop runs every task of a
\* gathered batch to completion and run_until_complete returns when all are
\* done, which leaves the with block (weak fairness of Task and Release);
\* release() of threading.Lock lets a thread blocked in acquire() proceed,
\* so a thread that blocks on a lock that is free again and again gets it
\* (strong fairness of Acquire).  Calls and the clock are left unconstrained.
Fairness ==
    \A t \in Threads :
        /\ WF_vars(Task(t))
        /\ WF_vars(Release(t))
        /\ SF_vars(Acquire(t))

\* the refresh cycles of both threads under the scheduling of the lock and
\* the event loop
SpecFair == InitFair /\ [][NextRefresh]_vars /\ Fairness

InitSeq == IdleSched /\ InitExch(SeqEnv)

NextSeq ==
    \/ RefreshStep("loop")
    \/ Tick

\* refresh cycles of one thread for one key, one after the other
SpecSeq == InitSeq /\ [][NextSeq]_vars

InitBatch == IdleSched /\ InitExch(BatchEnv)

\* refresh cycles of one thread for two keys
SpecBatch == InitBatch /\ [][NextSeq]_vars

\* a candle that opens at p and closes at q, as the exchange sends it:
\* [timestamp ms, open, high, low, close, volume]
Candle(d, p, q) ==
    <<d, p, IF p > q THEN p ELSE q, IF p < q THEN p ELSE q, q, p + q>>

\* the candles an input series is made of: period starts on the grid of
\* the timeframe, in any order and with repetitions
CleanCandles ==
    {Candle(i * timeframe_to_msecs("5m"), p, q) :
        i \in 0..CleanGap, p \in 1..CleanPrice, q \in 1..CleanPrice}

CleanInputs == UNION {[1..n -> CleanCandles] : n \in 0..CleanRows}

InitClean ==
    /\ IdleSched
    /\ NewExchange(NoEnv)
    /\ rd = NoRead
    /\ an = NoAn
    /\ \E d \in CleanInputs, f \in BOOLEAN, dr \in BOOLEAN :
          conv = [stage |-> "input", data |-> d, fill |-> f, drop |-> dr,
                  once |-> <<>>, twice |-> <<>>]

\* ohlcv_to_dataframe(ohlcv, timeframe, pair, fill_missing, drop_incomplete)
CleanOnce ==
    /\ conv.stage = "input"
    /\ conv' = [conv EXCEPT
            !.stage = "once",
            !.once = ohlcv_to_dataframe(conv.data, "5m", conv.fill,
                                        conv.drop)]
    /\ UNCHANGED <<now, klines, lastRefresh, loopLock, th, hist, env, rd,
                   an>>
    /\ UNCHANGED schedVars

\* clean_ohlcv_dataframe applied to the frame it returned
CleanTwice ==
    /\ conv.stage = "once"
    /\ conv' = [conv EXCEPT
            !.stage = "twice",
            !.twice = clean_ohlcv_dataframe(conv.once, "5m", conv.fill,
                                            conv.drop)]
    /\ UNCHANGED <<now, klines, lastRefresh, loopLock, th, hist, env, rd,
                   an>>
    /\ UNCHANGED schedVars

NextClean ==
    \/ CleanOnce
    \/ CleanTwice

\* the normaliser applied to a series and to its own result
SpecClean == InitClean /\ [][NextClean]_vars

PageEnv == [keys |-> [t \in Threads |->
                        IF t = "loop" THEN {KeyMinBTC, KeyMinETH} ELSE {}],
            caches |-> {TRUE}, drops |-> {"None"}, clock |-> PageClock,
            ticks |-> PageTicks, stride |-> PageStride, back |-> PageBack,
            price |-> PagePrice, record |-> FALSE,
            sinces |-> {0, PageSince}]

InitPages == IdleSched /\ InitExch(PageEnv)

\* refresh cycles of one thread for two keys, with and without a since_ms
\* that asks for history
SpecPages == InitPages /\ [][NextSeq]_vars

SkipEnv == [keys |-> [t \in Threads |->
                        IF t = "loop"
                        THEN {KeyBTC, KeyHourSpot, KeyHourFutures,
                              KeyHourMark}
                        ELSE {}],
            caches |-> {TRUE}, drops |-> {"None"}, clock |-> SkipClock,
            ticks |-> SkipTicks, stride |-> SkipStride, back |-> SkipBack,
            price |-> SkipPrice, record |-> FALSE,
          sinces |-> {0}]

InitSkip == IdleSched /\ InitExch(SkipEnv)

\* refresh cycles of one thread over keys with listed and unlisted
\* timeframes
SpecSkip == InitSkip /\ [][NextSeq]_vars

ReadEnv == [keys |-> [t \in Threads |-> IF t = "loop" THEN {KeyBTC} ELSE {}],
            caches |-> {TRUE}, drops |-> {"None"}, clock |-> ReadClock,
            ticks |-> ReadTicks, stride |-> ReadStride, back |-> ReadBack,
            price |-> ReadPrice, record |-> FALSE,
          sinces |-> {0}]

InitRead == IdleSched /\ InitExch(ReadEnv)

\* a caller outside the refresh path reads a series through
\* DataProvider.ohlcv (provider.py 57-61, exchange.py 202-208)
ReadSeries ==
    /\ \E pair \in {KeyBTC[1], KeyETH[1]}, copy \in BOOLEAN,
          candle_type \in {"", "spot"} :
         LET r == dp_ohlcv(klines, pair, "5m", copy, candle_type)
             k == <<pair, "5m", from_string(candle_type)>>
         IN  /\ rd' = [stage |-> "read", key |-> k, copy |-> copy,
                       df |-> r.df, alias |-> r.alias]
             /\ hist' = [NoOp EXCEPT !.name = "read", !.key = k]
    /\ UNCHANGED <<now, klines, lastRefresh, loopLock, th, env, conv, an>>
    /\ UNCHANGED schedVars

\* the caller sets a column on the frame it was given, as advise_entry does
\* (base.py 165): a frame that is the cached object changes in the cache
MutateRead ==
    /\ rd.stage = "read"
    /\ LET m == set_column(rd.df, "enter_tag")
       IN  /\ rd' = [rd EXCEPT !.stage = "mutated", !.df = m]
           /\ klines' = IF rd.alias THEN DictSet(klines, rd.key, m)
                         ELSE klines
    /\ hist' = [NoOp EXCEPT !.name = "mutate", !.key = rd.key]
    /\ UNCHANGED <<now, lastRefresh, loopLock, th, env, conv, an>>
    /\ UNCHANGED schedVars

NextRead ==
    \/ RefreshStep("loop")
    \/ Tick
    \/ ReadSeries
    \/ MutateRead

\* refresh cycles for one key while a caller reads the cache and changes
\* the frames it gets
SpecRead == InitRead /\ [][NextRead]_vars

AnEnv == [keys |-> [t \in Threads |-> IF t = "loop" THEN Keys ELSE {}],
          caches |-> {TRUE}, drops |-> {"None"}, clock |-> AnClock,
          ticks |-> AnTicks, stride |-> AnStride, back |-> AnBack,
          price |-> AnPrice, record |-> FALSE,
          sinces |-> {0}]

\* Bot.__init__ with a strategy whose settings are those of BaseStrategy or
\* overridden by the subclass
InitAnalyze ==
    /\ IdleSched
    /\ NewExchange(AnEnv)
    /\ conv = NoConv
    /\ rd = NoRead
    /\ \E checksOff \in BOOLEAN, onlyNew \in BOOLEAN :
         an = [NoAn EXCEPT !.checksOff = checksOff, !.onlyNew = onlyNew]

\* Bot.loop_update is called: the whitelist is set and
\* DataProvider.refresh enters refresh_latest_ohlcv (bot.py 53-63)
LoopUpdate ==
    /\ an.pc = "idle"
    /\ th["loop"].pc = "idle"
    /\ th' = [th EXCEPT !["loop"] =
                 enter_call(th["loop"],
                            {<<active_pair_whitelist[i], "5m", "spot">> :
                                i \in 1..Len(active_pair_whitelist)},
                            0, TRUE, "None")]
    /\ an' = [an EXCEPT !.pc = "refresh", !.todo = active_pair_whitelist]
    /\ hist' = [NoOp EXCEPT !.name = "call", !.t = "loop"]
    /\ UNCHANGED <<now, klines, lastRefresh, loopLock, env, conv, rd>>
    /\ UNCHANGED schedVars

\* one iteration of the loop of BaseStrategy.analyzes: analyze(pair)
\* (base.py 250-272, 279-280)
AnalyzePair ==
    /\ an.pc = "refresh"
    /\ th["loop"].pc = "idle"
    /\ an.todo # <<>>
    /\ \E e \in StrategyEffects, removed \in BOOLEAN :
         LET pair == Head(an.todo)
             k == <<pair, "5m", "spot">>
             r == dp_ohlcv(klines, pair, "5m", TRUE, "spot")
             dataframe == r.df
             n == Len(dataframe)
             a == analyze_frame(dataframe, pair, an.seen, an.onlyNew, e,
                                removed, now)
             v == assert_df(a.frame, n, dataframe[n].close,
                            dataframe[n].date, an.checksOff)
             raised == v.result = "StrategyError"
             caught == raised
             rest == Tail(an.todo)
             run == IF n = 0
                    THEN [NoRun EXCEPT !.on = TRUE, !.pair = pair,
                                       !.kind = "empty", !.warned = TRUE]
                    ELSE [on |-> TRUE, pair |-> pair,
                          kind |-> IF a.launched THEN "launched"
                                   ELSE "skipped",
                          new |-> a.new, read |-> dataframe,
                          frame |-> a.frame, df |-> a.df, sent |-> a.sent,
                          message |-> v.message,
                          warned |-> v.result # "pass",
                          raised |-> raised,
                          escaped |-> raised /\ ~caught]
         IN  /\ an' = [an EXCEPT
                         !.seen = IF n = 0 THEN @ ELSE a.seen,
                         !.todo = rest,
                         !.pc = IF rest = <<>> THEN "idle" ELSE "refresh",
                         !.last = run]
             /\ klines' = IF n > 0 /\ r.alias
                          THEN DictSet(klines, k, a.frame) ELSE klines
             /\ hist' = [NoOp EXCEPT !.name = "analyze", !.key = k]
    /\ UNCHANGED <<now, lastRefresh, loopLock, th, env, conv, rd>>
    /\ UNCHANGED schedVars

NextAnalyze ==
    \/ LoopUpdate
    \/ BuildJob("loop")
    \/ Acquire("loop")
    \/ Task("loop")
    \/ Release("loop")
    \/ Process("loop")
    \/ ReturnCached("loop")
    \/ AnalyzePair
    \/ Tick

\* Bot.loop_update called again and again: the whitelist is refreshed, then
\* every pair of it is analysed
SpecAnalyze == InitAnalyze /\ [][NextAnalyze]_vars

CandleEnv == [AnEnv EXCEPT !.clock = CandleClock, !.ticks = CandleTicks,
                           !.stride = CandleStride, !.back = CandleBack,
                           !.price = CandlePrice]

\* Bot.__init__ with a strategy that keeps the settings of BaseStrategy:
\* process_only_new_candles on, the dataframe checks on
InitCandle ==
    /\ IdleSched
    /\ NewExchange(CandleEnv)
    /\ conv = NoConv
    /\ rd = NoRead
    /\ an = NoAn

\* the cycles of Bot.loop_update while the clock passes into later candles
SpecCandle == InitCandle /\ [][NextAnalyze]_vars

MergeEnv == [keys |-> [t \in Threads |-> IF t = "loop" THEN {KeyBTC} ELSE {}],
             caches |-> {TRUE}, drops |-> {"None", "False"}, clock |-> 0,
             ticks |-> MergeTicks, stride |-> MergeStride,
             back |-> MergeBack, price |-> MergePrice, record |-> TRUE,
          sinces |-> {0}]

\* a call that built its job while the key was not cached is about to
\* process its result, and another call has stored the key since: the
\* cache holds the first insertion of some fetched rows
InitMerge ==
    /\ IdleSched
    /\ conv = NoConv
    /\ rd = NoRead
    /\ an = NoAn
    /\ env = MergeEnv
    /\ now = StartNow
    /\ loopLock = "free"
    /\ hist = NoOp
    /\ \E stored \in TickLists("5m", StartNow), sd \in BOOLEAN,
          fetched \in TickLists("5m", StartNow), d \in MergeEnv.drops :
         LET first == process_ohlcv_df(KeyBTC, stored, TRUE, sd,
                                       EmptyDict, EmptyDict)
             b == build_coroutine(KeyBTC, 0, TRUE, EmptyDict, EmptyDict,
                                  StartNow)
         IN  /\ klines = first.klines
             /\ lastRefresh = first.lastRefresh
             /\ th = [t \in Threads |->
                        IF t = "loop"
                        THEN [Frame0 EXCEPT
                                !.pc = "process", !.pairs = {KeyBTC},
                                !.drop = d, !.jobs = <<b.job>>,
                                !.results = <<[status |-> "ok",
                                               ticks |-> fetched]>>,
                                !.p0 = timeframe_to_prev_date("5m", StartNow),
                                !.ncalls = 1]
                        ELSE Frame0]

NextMerge ==
    \/ Process("loop")
    \/ ReturnCached("loop")

\* the result loop of a call for a key that is cached when its result
\* arrives
SpecMerge == InitMerge /\ [][NextMerge]_vars

(***************************************************************************)
(* Properties                                                              *)
(***************************************************************************)
\* C1: when the RUNNING handler's body raises, exactly one message is
\* handed to the fan-out, that message is a WARNING or a STATUS message, and
\* BotState is STOPPED when the handler has returned.
C1_FaultSendsOneWarningOrStatus ==
    lastOp = "running_fault" =>
        /\ Len(lastSent) = 1
        /\ lastSent[1].type \in {"WARNING", "STATUS"}
        /\ botState = "STOPPED"

\* a step of the run loop that invokes the RUNNING handler
RunningInvoked ==
    /\ pc = "dispatch"
    /\ wstate = "RUNNING"
    /\ lastOp' \in {"running", "running_fault"}
    /\ pc' # pc

\* C2: once the RUNNING handler has faulted, the run loop does not invoke
\* the RUNNING handler again before a start request has set BotState back
\* to RUNNING, whatever the interleaving of loop steps and start/stop
\* requests.
C2_NoRetryAfterFault == [][RunningInvoked => ~faulted]_vars

\* the loop has gone through a STOPPED iteration after a fault
C2_Witness == faulted /\ lastOp = "stopped" /\ pc = "read"

Count(seq, x) == Cardinality({j \in 1..Len(seq) : seq[j] = x})

\* C3: one send_msg invokes the send_msg of every registered sink exactly
\* once, whichever of the sinks raise.
C3_FanOutIsolation ==
    \A i \in 1..Len(lastSent) :
        LET s == lastSent[i]
        IN  /\ \A j \in 1..Len(s.sinks) : Count(s.calls, s.sinks[j]) = 1
            /\ Len(s.calls) = Len(s.sinks)

\* a message went to two sinks of which the first raised
C3_Witness ==
    /\ Len(lastSent) = 1
    /\ Len(lastSent[1].sinks) >= 2
    /\ lastSent[1].oc[lastSent[1].sinks[1]] # "ok"
    /\ Count(lastSent[1].calls, lastSent[1].sinks[2]) = 1

\* C4: no error of a sink leaves send_msg: the step that sent goes on as if
\* every sink had succeeded; the fault path sets STOPPED and the loop goes
\* on to its next read, the startup hook is followed by the dispatch.
C4_SinkFailureContained ==
    /\ \A i \in 1..Len(lastSent) : ~lastSent[i].raised
    /\ lastOp = "running_fault" => (botState = "STOPPED" /\ pc = "read")
    /\ (lastOp = "read" /\ lastSent # <<>>) => pc = "dispatch"

\* the fault was reported to a sink that raised, and STOPPED was still set
C4_Witness ==
    /\ lastOp = "running_fault"
    /\ Len(lastSent) = 1
    /\ \E h \in 1..Len(lastSent[1].sinks) :
          lastSent[1].oc[lastSent[1].sinks[h]] = "Exception"
    /\ botState = "STOPPED"

JobKeys(f) == {f.jobs[i].key : i \in 1..Len(f.jobs)}

JumpLimit(k, cur) ==
    cur - (ohlcv_candle_limit(k[2], k[3]) - 5) * timeframe_to_seconds(k[2])

\* C6: when the recorded last closed period of a cached key is older than
\* candleLimit - 5 periods before now, a refresh of the key evicts its
\* entry and issues a historic fetch; when it is not older, the entry is
\* not evicted.
C6_TimeJumpEviction ==
    (hist.name = "build" /\ hist.dec.cache /\ hist.dec.cachedBefore
        /\ hist.dec.hasLast) =>
        IF hist.dec.last < JumpLimit(hist.key, hist.dec.cur)
        THEN hist.dec.evicted /\ hist.dec.kind = "historic"
        ELSE ~hist.dec.evicted

\* N of the bounded cache: candle limit plus warm-up count
CacheRows(k) == ohlcv_candle_limit(k[2], k[3]) + startup_candle_count

\* C7 as claimed: every cached series has at most N rows, after a first
\* insertion as well as after a merge.
C7_BoundedCache ==
    \A k \in DOMAIN klines : Len(klines[k]) <= CacheRows(k)

\* C7 as amended: a series stored by a merge into an existing entry has at
\* most N rows.
C7_MergeBounded ==
    (hist.name = "process" /\ hist.merged) =>
        Len(klines[hist.key]) <= CacheRows(hist.key)

\* a merge whose result was longer than N before the trim
C7_Witness ==
    /\ hist.name = "process"
    /\ hist.merged
    /\ hist.fullLen > CacheRows(hist.key)

\* C8: every cached series has strictly increasing period starts with
\* consecutive rows exactly one interval apart.
C8_CacheSeriesRegular ==
    \A k \in DOMAIN klines :
        \A i \in 1..(Len(klines[k]) - 1) :
            klines[k][i + 1].date
                = klines[k][i].date + timeframe_to_msecs(k[2])

\* a cached series with a synthesized row between two fetched rows
C8_Witness ==
    \E k \in DOMAIN klines :
        /\ Len(klines[k]) >= 3
        /\ klines[k][1].volume > 0
        /\ klines[k][2].volume = 0
        /\ klines[k][3].volume > 0

\* C9: a call whose fetch tasks fail in part returns: the key of every
\* succeeded task is in the result with its processed series, the key of
\* every failed task is not, and every cache-eligible key is in the result.
C9_FetchFailureIsolated ==
    \A t \in Threads :
        LET f == th[t]
        IN  /\ f.pc # "raised"
            /\ (hist.name = "return" /\ hist.t = t) =>
                /\ \A i \in 1..Len(f.jobs) :
                      LET k == f.jobs[i].key
                      IN  IF f.results[i].status = "exc"
                          THEN k \notin DOMAIN f.out
                          ELSE /\ k \in DOMAIN f.out
                               /\ f.out[k].via = "fetch"
                               /\ f.cache => f.out[k].df = klines[k]
                /\ \A i \in 1..Len(f.cachedPairs) :
                      /\ f.cachedPairs[i] \in DOMAIN f.out
                      /\ f.out[f.cachedPairs[i]].via = "cache"

\* a call returned after one of its two fetch tasks failed
C9_Witness ==
    LET f == th["loop"]
    IN  /\ hist.name = "return"
        /\ Len(f.jobs) = 2
        /\ f.results[1].status = "exc"
        /\ f.results[2].status = "ok"
        /\ DOMAIN f.out = {f.jobs[2].key}
        /\ Len(f.out[f.jobs[2].key].df) > 0

\* the thread has done a step of a refresh cycle and has not returned
InCycle(t) ==
    \/ th[t].pc \in {"lock", "gather", "process"}
    \/ th[t].pc = "build" /\ th[t].todo # th[t].pairs

\* C10 as claimed: the steps of one refresh cycle never interleave with the
\* steps of a cycle of the other thread.
C10_CyclesSerialized ==
    \A a, b \in Threads : a # b => ~(InCycle(a) /\ InCycle(b))

\* C10 as amended: only the fetch batches are serialized; a thread runs a
\* batch exactly while it holds the lock, so no two threads run one at once.
C10_BatchesSerialized ==
    /\ \A a, b \in Threads :
          a # b => ~(th[a].pc = "gather" /\ th[b].pc = "gather")
    /\ \A t \in Threads : th[t].pc = "gather" <=> loopLock = t

\* one thread runs its batch while the other waits for the lock
C10_Witness ==
    \E a, b \in Threads :
        /\ a # b
        /\ th[a].pc = "gather"
        /\ th[b].pc = "lock"

\* C11 as claimed: when a read of the loop has fired its hooks, every entry
\* of BotState into RUNNING has had its startup hook and every entry into
\* STOPPED its cleanup hook, however often the state changed since the
\* read before.
C11_HookPerEntry == lastOp = "read" => owed = {}

\* C11 as amended: the hooks follow the states the loop reads, not the
\* entries: a read fires the startup hook exactly when it reads RUNNING and
\* the read before it did not, the cleanup hook exactly when it reads
\* STOPPED and the read before it did not, each once; no other step of the
\* loop or of a request fires a hook.
C11_HookPerObservedChange ==
    [][/\ lastOp' = "read" =>
            step'.hooks =
                (IF wstate' = "RUNNING" /\ wstate # "RUNNING"
                 THEN <<"startup">>
                 ELSE IF wstate' = "STOPPED" /\ wstate # "STOPPED"
                 THEN <<"cleanup">>
                 ELSE <<>>)
       /\ lastOp' \notin {"read", "exit"} => step'.hooks = <<>>]_vars

\* a read that fired no hook although the state had been stopped and
\* started again since the read before
C11_Witness ==
    /\ lastOp = "read"
    /\ step.hooks = <<>>
    /\ wstate = "RUNNING"
    /\ owed = {"RUNNING", "STOPPED"}

\* C12: an iteration of a throttled handler takes at least throttleSeconds
\* from the start of the handler to the return of the throttle, after which
\* the next handler can start.
C12_Throttled ==
    lastOp \in {"stopped", "running", "running_fault"} =>
        (pc = "read" => elapsed >= throttle_secs)

\* C13: after a fault the loop leaves a control channel registered when it
\* has handled STOPPED, so that a start request can arrive, and the read
\* that follows a start request made in STOPPED fires the startup hook.
C13_StoppedRecoverable ==
    /\ []((lastOp = "stopped" /\ faulted) => Len(handlers) > 0)
    /\ [][(lastOp = "start" /\ step.from = "STOPPED" /\ lastOp' = "read")
            => step'.hooks = <<"startup">>]_vars

\* C14 as claimed: the initial BotState is the configured state, STARTED
\* when none is configured.
C14_InitialStateDefaultStarted ==
    lastOp = "init" =>
        botState = (IF cfgInit = "unset" THEN "STARTED" ELSE cfgInit)

\* C14 as amended: the initial BotState is the configured state, STOPPED
\* when none is configured.
C14_InitialStateDefaultStopped ==
    lastOp = "init" =>
        botState = (IF cfgInit = "unset" THEN "STOPPED" ELSE cfgInit)

\* the bot was constructed without a configured state
C14_Witness == lastOp = "init" /\ cfgInit = "unset" /\ botState = "STOPPED"

C16_RegistrationOrder ==
    \A i \in 1..Len(lastSent) :
        /\ lastSent[i].calls = lastSent[i].sinks
        /\ \A a, b \in 1..Len(lastSent[i].calls) :
              a < b => lastSent[i].calls[a] < lastSent[i].calls[b]

\* a message went to two sinks, the first registered first
C16_Witness ==
    /\ Len(lastSent) = 1
    /\ lastSent[1].calls = <<1, 2>>

Reverse(seq) == [i \in 1..Len(seq) |-> seq[Len(seq) + 1 - i]]

C18_TeardownBestEffort ==
    step.hooks = <<"cleanup">> => (~step.raised /\ handlers = <<>>)

\* C19 as claimed: for every input and every setting of fill_missing and
\* drop_incomplete, cleaning the cleaned series gives the cleaned series.
C19_CleanIdempotent == conv.stage = "twice" => conv.twice = conv.once

\* C19 as amended: with drop_incomplete off cleaning the cleaned series
\* gives the cleaned series, with fill_missing on or off; with
\* drop_incomplete on the second pass gives the cleaned series without its
\* last row.
C19_CleanIdempotentWithoutDrop ==
    conv.stage = "twice" =>
        IF conv.drop /\ Len(conv.once) > 0
        THEN conv.twice = SubSeq(conv.once, 1, Len(conv.once) - 1)
        ELSE conv.twice = conv.once

\* a series with a gap was cleaned twice with drop_incomplete off
C19_Witness ==
    /\ conv.stage = "twice"
    /\ ~conv.drop
    /\ conv.fill
    /\ Len(conv.data) = 2
    /\ Len(conv.once) = 3
    /\ conv.once[2].volume = 0
    /\ conv.twice = conv.once

\* the rows of the input that carry the period start d
RowsAt(d) == {i \in 1..Len(conv.data) : conv.data[i][1] = d}

\* the period starts of the input that the normaliser keeps: all of them,
\* without the latest when drop_incomplete is on
KeptDates ==
    LET dates == {conv.data[i][1] : i \in 1..Len(conv.data)}
    IN  IF conv.drop
        THEN {d \in dates : \E e \in dates : e > d}
        ELSE dates

\* C20: the cleaned series has no two rows with one period start, and for
\* every period start of the input that it keeps it has one row: open of
\* the first input row with that period start, highest high, lowest low,
\* close of the last such row, highest volume.
C20_Dedup ==
    conv.stage = "once" =>
        /\ \A j, k \in 1..Len(conv.once) :
              j # k => conv.once[j].date # conv.once[k].date
        /\ \A d \in KeptDates :
              \E j \in 1..Len(conv.once) :
                 LET r == conv.once[j]
                     I == RowsAt(d)
                 IN  /\ r.date = d
                     /\ \E i \in I : /\ \A x \in I : i <= x
                                     /\ r.open = conv.data[i][2]
                     /\ \E i \in I : /\ \A x \in I : x <= i
                                     /\ r.close = conv.data[i][5]
                     /\ \E i \in I : r.high = conv.data[i][3]
                     /\ \A i \in I : r.high >= conv.data[i][3]
                     /\ \E i \in I : r.low = conv.data[i][4]
                     /\ \A i \in I : r.low <= conv.data[i][4]
                     /\ \E i \in I : r.volume = conv.data[i][6]
                     /\ \A i \in I : r.volume >= conv.data[i][6]
        /\ \A j \in 1..Len(conv.once) :
              \/ conv.once[j].date \in KeptDates
              \/ conv.fill /\ conv.once[j].volume = 0

\* two rows with one period start, a falling candle after a flat one, were
\* merged into one row
C20_Witness ==
    /\ conv.stage = "once"
    /\ ~conv.drop
    /\ Len(conv.data) = 2
    /\ conv.data[1][1] = conv.data[2][1]
    /\ conv.data[1][2] # conv.data[2][2]
    /\ conv.data[1][3] > conv.data[2][3]
    /\ Len(conv.once) = 1
    /\ conv.once[1].open = conv.data[1][2]
    /\ conv.once[1].high = conv.data[1][3]

\* C21: with fill_missing on, the cleaned series has one row on every period
\* of the grid between the first and the last period start it keeps; a
\* period that has one input row carries the values of that row, and a
\* period without an input row carries the close of the nearest earlier row
\* as open, high, low and close, and volume 0.
C21_GapFill ==
    (conv.stage = "once" /\ conv.fill /\ KeptDates # {}) =>
        LET ms == timeframe_to_msecs("5m")
            lo == CHOOSE d \in KeptDates : \A e \in KeptDates : d <= e
            hi == CHOOSE d \in KeptDates : \A e \in KeptDates : e <= d
        IN  /\ Len(conv.once) = ((hi - lo) \div ms) + 1
            /\ \A j \in 1..Len(conv.once) :
                  LET d == lo + (j - 1) * ms
                      r == conv.once[j]
                  IN  /\ r.date = d
                      /\ \A i \in RowsAt(d) :
                            RowsAt(d) = {i} =>
                                /\ r.open = conv.data[i][2]
                                /\ r.high = conv.data[i][3]
                                /\ r.low = conv.data[i][4]
                                /\ r.close = conv.data[i][5]
                                /\ r.volume = conv.data[i][6]
                      /\ RowsAt(d) = {} =>
                            \E e \in KeptDates :
                               /\ e < d
                               /\ \A x \in KeptDates : x < d => x <= e
                               /\ \E i \in RowsAt(e) :
                                     /\ \A y \in RowsAt(e) : y <= i
                                     /\ r.open = conv.data[i][5]
                                     /\ r.high = conv.data[i][5]
                                     /\ r.low = conv.data[i][5]
                                     /\ r.close = conv.data[i][5]
                               /\ r.volume = 0

\* rows at T and T + 3 intervals were cleaned: two rows were synthesized
\* between them, both with the close of the row at T
C21_Witness ==
    /\ conv.stage = "once"
    /\ conv.fill
    /\ ~conv.drop
    /\ Len(conv.data) = 2
    /\ conv.data[2][1] = conv.data[1][1] + 3 * timeframe_to_msecs("5m")
    /\ conv.data[1][2] # conv.data[1][5]
    /\ Len(conv.once) = 4
    /\ conv.once[2].volume = 0
    /\ conv.once[3].volume = 0
    /\ conv.once[3].open = conv.data[1][5]
    /\ conv.once[4].close = conv.data[2][5]

\* C22: a successful fetch for a key that is not cached yields for the key
\* a series with strictly ascending period starts, which is also the series
\* cached when the call caches; when drop_incomplete is in effect and the
\* exchange has sent no row of a period later than the open one, no row of
\* the series belongs to the open period or a later one.
C22_FirstRefresh ==
    LET f == th[hist.t]
        k == hist.key
    IN  (hist.name = "process" /\ hist.io.on /\ ~hist.io.cachedBefore) =>
            /\ k \in DOMAIN f.out
            /\ LET df == f.out[k].df
               IN  /\ \A i, j \in 1..Len(df) : i < j => df[i].date < df[j].date
                   /\ f.cache => (k \in DOMAIN klines /\ klines[k] = df)
                   /\ (hist.io.drop /\ hist.io.last <= CurPeriod * MsPerSec) =>
                          \A i \in 1..Len(df) :
                              df[i].date < CurPeriod * MsPerSec

\* the first fetch of a key returned the previous and the open period, and
\* the series that was returned and cached holds the previous period alone
C22_Witness ==
    LET f == th["loop"]
    IN  /\ hist.name = "process"
        /\ hist.io.on
        /\ ~hist.io.cachedBefore
        /\ f.ncalls = 1
        /\ f.cache
        /\ hist.io.drop
        /\ hist.io.n = 2
        /\ hist.io.last = CurPeriod * MsPerSec
        /\ Len(klines[hist.key]) = 1
        /\ klines[hist.key][1].date = hist.io.prev
        /\ f.out[hist.key].df = klines[hist.key]

\* the start of the next period after the recorded last closed period of the
\* key the job loop looked at, 0 standing for no record
NextAfterLast == hist.dec.last + timeframe_to_seconds(hist.key[2])

\* C28 as claimed: a supported key is served from the cache exactly when
\* the call uses the cache, the key is cached and its last closed period
\* plus one interval is ahead of the start of the open period; otherwise a
\* fetch task is issued for it.
C28_FreshAhead ==
    (hist.name = "build" /\ hist.dec.kind # "skip") =>
        (hist.dec.kind = "cache" <=>
            /\ hist.dec.cache
            /\ hist.dec.cachedBefore
            /\ NextAfterLast > hist.dec.cur)

\* C28 as amended: a supported key is served from the cache exactly when
\* the call uses the cache, the key is cached and its last closed period
\* plus one interval is not behind the start of the open period (at it or
\* ahead of it); otherwise a fetch task is issued for it.
C28_FreshNotBehind ==
    (hist.name = "build" /\ hist.dec.kind # "skip") =>
        /\ (hist.dec.kind = "cache" <=>
                /\ hist.dec.cache
                /\ hist.dec.cachedBefore
                /\ NextAfterLast >= hist.dec.cur)
        /\ hist.dec.kind = "cache" <=> hist.key \notin JobKeys(th[hist.t])

\* a key whose last closed period is the one before the open period was
\* served from the cache
C28_Witness ==
    /\ hist.name = "build"
    /\ hist.dec.kind = "cache"
    /\ hist.dec.hasLast
    /\ NextAfterLast = hist.dec.cur
    /\ Len(th[hist.t].jobs) = 0

\* C30: after a result with rows was processed for a caching call, the
\* recorded last closed period of the key is the period of the
\* second-to-last fetched row when drop_incomplete is in effect and more
\* than one row was fetched, the period of the last fetched row otherwise;
\* a result without rows, and any result of a call that does not cache,
\* leaves the record as it was.
C30_LastClosedBookkeeping ==
    LET k == hist.key
        io == hist.io
    IN  (hist.name = "process" /\ io.on) =>
            IF io.cache /\ io.n > 0
            THEN /\ k \in DOMAIN lastRefresh
                 /\ lastRefresh[k] =
                        (IF io.drop /\ io.n > 1 THEN io.prev ELSE io.last)
                            \div MsPerSec
            ELSE /\ k \in DOMAIN lastRefresh <=> io.hadLast
                 /\ io.hadLast => lastRefresh[k] = io.lastBefore

\* two rows were fetched with drop_incomplete in effect and the period of
\* the first of them was recorded over an older record
C30_Witness ==
    /\ hist.name = "process"
    /\ hist.io.on
    /\ hist.io.cache
    /\ hist.io.drop
    /\ hist.io.n = 2
    /\ hist.io.prev < hist.io.last
    /\ hist.io.hadLast
    /\ hist.io.lastBefore * MsPerSec < hist.io.prev
    /\ lastRefresh[hist.key] * MsPerSec = hist.io.prev

\* C23: while a call holds a key as cache-eligible, no step changes the
\* cached series or the recorded last closed period of the key, and when the
\* call returns, its result for the key is the object held in the cache.
C23_CacheEligibleReturned ==
    [][\A t \in Threads :
         \A i \in 1..Len(th[t].cachedPairs) :
            LET k == th[t].cachedPairs[i]
            IN  /\ k \in DOMAIN klines
                /\ k \in DOMAIN klines'
                /\ klines'[k] = klines[k]
                /\ k \in DOMAIN lastRefresh <=> k \in DOMAIN lastRefresh'
                /\ k \in DOMAIN lastRefresh =>
                      lastRefresh'[k] = lastRefresh[k]
                /\ (hist'.name = "return" /\ hist'.t = t) =>
                      /\ k \in DOMAIN th'[t].out
                      /\ th'[t].out[k] = [df |-> klines[k], alias |-> TRUE,
                                          via |-> "cache"]]_vars

\* a call returned one key from the cache, as the object cached, and had
\* fetched and stored the other key in the meantime
C23_Witness ==
    LET f == th["loop"]
    IN  /\ hist.name = "return"
        /\ f.cachedPairs = <<KeyBTC>>
        /\ f.out[KeyBTC].alias
        /\ f.out[KeyBTC].via = "cache"
        /\ Len(f.out[KeyBTC].df) > 0
        /\ f.out[KeyBTC].df = klines[KeyBTC]
        /\ KeyETH \in DOMAIN f.out
        /\ f.out[KeyETH].via = "fetch"
        /\ Len(klines[KeyETH]) > 0

\* the period starts of a frame
DatesOf(df) == {df[i].date : i \in 1..Len(df)}

\* the row of a frame at a period start it has
RowOf(df, d) == df[CHOOSE i \in 1..Len(df) : df[i].date = d]

\* C29: when a result is processed for a caching call while the key is
\* cached, the series stored and returned is the most recent N rows of the
\* period grid that spans the cached series and the frame made of the
\* fetched rows: a period only the cached series has keeps the cached row,
\* a period only the fetched frame has takes the fetched row, a period both
\* have takes open of the cached row, the higher high, the lower low, close
\* of the fetched row and the higher volume, and a period between the two
\* that neither has is filled with the close before it and volume 0.
C29_MergeOnRefetch ==
    LET io == hist.io
        k == hist.key
        ms == timeframe_to_msecs(k[2])
        old == io.old
        new == io.fetched
        D == DatesOf(old) \cup DatesOf(new)
    IN  (hist.name = "process" /\ io.on /\ io.cache /\ io.cachedBefore) =>
            /\ k \in DOMAIN klines
            /\ th[hist.t].out[k].df = klines[k]
            /\ D = {} => klines[k] = <<>>
            /\ D # {} =>
                  LET res == klines[k]
                      lo == CHOOSE d \in D : \A e \in D : d <= e
                      hi == CHOOSE d \in D : \A e \in D : e <= d
                      full == ((hi - lo) \div ms) + 1
                      len == IF full < CacheRows(k) THEN full
                             ELSE CacheRows(k)
                  IN  /\ Len(res) = len
                      /\ \A j \in 1..len :
                            LET d == hi - (len - j) * ms
                                r == res[j]
                                inOld == d \in DatesOf(old)
                                inNew == d \in DatesOf(new)
                            IN  /\ r.date = d
                                /\ (inOld /\ ~inNew) => r = RowOf(old, d)
                                /\ (~inOld /\ inNew) => r = RowOf(new, d)
                                /\ (inOld /\ inNew) =>
                                      LET a == RowOf(old, d)
                                          b == RowOf(new, d)
                                      IN  /\ r.open = a.open
                                          /\ r.close = b.close
                                          /\ r.high \in {a.high, b.high}
                                          /\ r.high >= a.high
                                          /\ r.high >= b.high
                                          /\ r.low \in {a.low, b.low}
                                          /\ r.low <= a.low
                                          /\ r.low <= b.low
                                          /\ r.volume \in {a.volume, b.volume}
                                          /\ r.volume >= a.volume
                                          /\ r.volume >= b.volume
                                /\ (~inOld /\ ~inNew) =>
                                      LET e == CHOOSE x \in D :
                                                 /\ x < d
                                                 /\ \A y \in D : y < d => y <= x
                                          c == IF e \in DatesOf(new)
                                               THEN RowOf(new, e).close
                                               ELSE RowOf(old, e).close
                                      IN  /\ r.open = c
                                          /\ r.high = c
                                          /\ r.low = c
                                          /\ r.close = c
                                          /\ r.volume = 0

\* a merge of a cached series of three rows with a fetched row of its last
\* period: the oldest row was trimmed, the second was kept, the last was
\* aggregated from both
C29_Witness ==
    LET old == hist.io.old
        new == hist.io.fetched
        res == klines[hist.key]
    IN  /\ hist.name = "process"
        /\ hist.io.on
        /\ hist.merged
        /\ Len(old) = 3
        /\ Len(new) = 1
        /\ new[1].date = old[3].date
        /\ new[1].close # old[3].close
        /\ Len(res) = 2
        /\ res[1] = old[2]
        /\ res[2].open = old[3].open
        /\ res[2].close = new[1].close
        /\ res[2].open # res[2].close

\* C24: a read of the cache leaves every cached series and every last closed
\* period as they were; for a key that is not cached it returns the empty
\* series and the key stays absent, for a cached key it returns that series.
\* When the caller then changes the frame it got, a frame read with copy
\* leaves the cache unchanged, and a frame read without copy is the cached
\* entry: right after the read, the cache holds the cached series with the
\* caller's change applied.
C24_ReadLeavesCache ==
    [][/\ hist'.name = "read" =>
            /\ klines' = klines
            /\ lastRefresh' = lastRefresh
            /\ rd'.key \notin DOMAIN klines =>
                   rd'.df = <<>> /\ rd'.key \notin DOMAIN klines'
            /\ rd'.key \in DOMAIN klines => rd'.df = klines[rd'.key]
       /\ hist'.name = "mutate" =>
            /\ lastRefresh' = lastRefresh
            /\ DOMAIN klines' = DOMAIN klines
            /\ \A k \in DOMAIN klines : k # rd.key => klines'[k] = klines[k]
            /\ rd.copy => klines' = klines
            /\ (~rd.copy /\ hist.name = "read" /\ rd.key \in DOMAIN klines)
                  => /\ klines'[rd.key] = rd'.df
                     /\ klines'[rd.key] =
                            set_column(klines[rd.key], "enter_tag")
      ]_vars

\* a copy of a cached series was changed by its reader and the cache still
\* holds the series without the change
C24_Witness ==
    /\ hist.name = "mutate"
    /\ rd.copy
    /\ rd.key \in DOMAIN klines
    /\ Len(klines[rd.key]) > 0
    /\ rd.df = set_column(klines[rd.key], "enter_tag")
    /\ rd.df # klines[rd.key]

\* C25: the cached series and the last closed periods change only in a step
\* of the job loop or of the result loop of a refresh cycle; a step that
\* enters a cycle, returns from it, lets time pass, or analyses a pair and
\* publishes the result leaves all of them as they were.
C25_CacheOnlyInRefresh ==
    [][/\ (klines' # klines \/ lastRefresh' # lastRefresh) =>
            /\ th["loop"].pc \in {"build", "process"}
            /\ hist'.name \in {"build", "process"}
       /\ hist'.name \in {"analyze", "call", "return", "tick"} =>
            (klines' = klines /\ lastRefresh' = lastRefresh)
      ]_vars

\* a pair was analysed: the frame the analysis worked on has changed and
\* the cache still holds the series that was read
C25_Witness ==
    /\ hist.name = "analyze"
    /\ an.last.kind = "launched"
    /\ hist.key \in DOMAIN klines
    /\ klines[hist.key] = an.last.read
    /\ an.last.frame # an.last.read
    /\ an.last.sent # <<>>

\* the positions of the messages of one type among those sent
SentOf(sent, type) == {i \in 1..Len(sent) : sent[i].type = type}

\* C26: every publish sends one ANALYZED_DF message, first, with the key
\* and the last row of the series; it sends one NEW_CANDLE message for the
\* key after it when it was told that the candle is new, and none otherwise.
C26_PublishMessages ==
    (an.last.on /\ an.last.kind = "launched") =>
        LET sent == an.last.sent
            series == an.last.df
            key == <<an.last.pair, "5m", "spot">>
        IN  /\ Len(sent) = IF an.last.new THEN 2 ELSE 1
            /\ SentOf(sent, "ANALYZED_DF") = {1}
            /\ sent[1].data.key = key
            /\ sent[1].data.df = <<series[Len(series)]>>
            /\ SentOf(sent, "NEW_CANDLE") = IF an.last.new THEN {2} ELSE {}
            /\ an.last.new => sent[2].data = key

\* a series was published for a candle that had been seen before
C26_Witness ==
    /\ an.last.on
    /\ an.last.kind = "launched"
    /\ ~an.last.new
    /\ Len(an.last.df) > 0
    /\ Len(an.last.sent) = 1

\* the frame of the last analysis fails a check of the analysis contract:
\* no entry signal column, another length, another last close or last date
\* than the series that was read
Violated ==
    /\ an.last.on
    /\ an.last.kind # "empty"
    /\ LET before == an.last.read
           after == an.last.frame
       IN  \/ ~has_column(after, "enter_long")
           \/ Len(after) # Len(before)
           \/ after[Len(after)].close # before[Len(before)].close
           \/ after[Len(after)].date # before[Len(before)].date

\* the pairs of the whitelist after the pair p
RestAfter(p) ==
    LET i == CHOOSE j \in 1..Len(active_pair_whitelist) :
                 active_pair_whitelist[j] = p
    IN  SubSeq(active_pair_whitelist, i + 1, Len(active_pair_whitelist))

\* C27 as claimed: a violation is contained with a warning when the checks
\* are disabled, and leaves the cycle as an exception when they are not.
C27_FatalRaises ==
    Violated =>
        IF an.checksOff
        THEN an.last.warned /\ ~an.last.escaped
        ELSE an.last.escaped

\* C27: a violation is contained per pair whatever the setting: a warning
\* is logged, nothing leaves analyze as an exception, the loop over the
\* whitelist goes on with the pairs after this one; with the checks enabled
\* the StrategyError is raised and caught inside analyze. The violation is
\* found after the analysis ran: its result has been published. An analysis
\* that passes the checks logs no warning.
C27_ViolationContained ==
    /\ Violated =>
         /\ an.last.warned
         /\ an.last.message # ""
         /\ ~an.last.escaped
         /\ an.last.raised <=> ~an.checksOff
         /\ hist.name = "analyze" =>
               /\ an.todo = RestAfter(an.last.pair)
               /\ an.pc = IF an.todo = <<>> THEN "idle" ELSE "refresh"
               /\ th["loop"].pc = "idle"
         /\ an.last.kind = "launched" => Len(an.last.sent) >= 1
    /\ (an.last.on /\ an.last.kind # "empty" /\ ~Violated) =>
         (~an.last.warned /\ ~an.last.raised)

\* with the checks enabled, the first pair of the whitelist came out of its
\* analysis with another length; the second pair is still to be analysed
C27_Witness ==
    /\ Violated
    /\ ~an.checksOff
    /\ an.last.message = "length"
    /\ an.last.raised
    /\ an.last.pair = active_pair_whitelist[1]
    /\ hist.name = "analyze"
    /\ an.pc = "refresh"
    /\ an.todo = <<active_pair_whitelist[2]>>

\* the keys of the call that have a place in the list of cached pairs
CachedKeys(f) == {f.cachedPairs[i] : i \in 1..Len(f.cachedPairs)}

\* C31: a requested spot or futures key whose timeframe the exchange does
\* not list gets no fetch task, is not among the cached pairs, is absent
\* from the result, and never has a cached series or a last closed period;
\* every other requested key, a mark key with an unlisted timeframe
\* included, gets a fetch task or is served from the cache, and is in the
\* result unless its fetch failed.
C31_UnsupportedSkipped ==
    LET f == th["loop"]
    IN  /\ \A k \in {KeyHourSpot, KeyHourFutures} :
              k \notin DOMAIN klines /\ k \notin DOMAIN lastRefresh
        /\ (hist.name = "build" /\ hist.key \in {KeyHourSpot, KeyHourFutures})
              => hist.dec.kind = "skip"
        /\ (hist.name = "build" /\ hist.key \in {KeyBTC, KeyHourMark})
              => hist.dec.kind # "skip"
        /\ hist.name = "return" =>
              \A k \in f.pairs :
                 IF k \in {KeyHourSpot, KeyHourFutures}
                 THEN /\ k \notin JobKeys(f)
                      /\ k \notin CachedKeys(f)
                      /\ k \notin DOMAIN f.out
                 ELSE /\ k \in JobKeys(f) \cup CachedKeys(f)
                      /\ k \in CachedKeys(f) => k \in DOMAIN f.out
                      /\ \A i \in 1..Len(f.jobs) :
                            (f.jobs[i].key = k
                                /\ f.results[i].status = "ok")
                            => k \in DOMAIN f.out

\* a call for a listed key, an unlisted spot key and an unlisted mark key
\* returned the series of the first and the third
C31_Witness ==
    LET f == th["loop"]
    IN  /\ hist.name = "return"
        /\ f.pairs = {KeyBTC, KeyHourSpot, KeyHourMark}
        /\ DOMAIN f.out = {KeyBTC, KeyHourMark}
        /\ Len(f.out[KeyBTC].df) > 0
        /\ f.out[KeyHourMark].via = "fetch"
        /\ DOMAIN klines = {KeyBTC, KeyHourMark}

RECURSIVE PendingRequests(_, _)
\* the requests of the tasks of the running batch that have not completed,
\* from the i-th task on
PendingRequests(f, i) ==
    IF i > Len(f.results) THEN 0
    ELSE (IF f.results[i].status = "pending"
          THEN requests_in_flight(f.jobs[f.base + i], now) ELSE 0)
         + PendingRequests(f, i + 1)

\* the requests a thread has in flight
InFlight(t) == IF th[t].pc = "gather" THEN PendingRequests(th[t], 1) ELSE 0

\* C32 as claimed: at no moment of a refresh cycle are more than 100
\* requests in flight, whatever the number of keys and of history pages.
C32_RequestsBounded == \A t \in Threads : InFlight(t) <= ChunkSize

\* the key has the same cached series, or none, in both maps
SameEntry(d1, d2, k) ==
    /\ k \in DOMAIN d1 <=> k \in DOMAIN d2
    /\ k \in DOMAIN d1 => d1[k] = d2[k]

\* C33 as claimed: when a call with useCache returns, every key whose fetch
\* task failed has the cached series and the last closed period it had
\* when the call was entered.
C33_FailedFetchKeepsCache ==
    LET f == th["loop"]
    IN  (hist.name = "return" /\ f.cache) =>
            \A i \in 1..Len(f.jobs) :
                f.results[i].status = "exc" =>
                    /\ SameEntry(klines, f.kl0, f.jobs[i].key)
                    /\ SameEntry(lastRefresh, f.lr0, f.jobs[i].key)

\* C34 as claimed: a key has a cached series exactly when it has a recorded
\* last closed period.
C34_CacheCoherent == DOMAIN klines = DOMAIN lastRefresh

\* C34: a key whose cached series has rows has a recorded last closed
\* period.
C34_SeriesHasLastClosed ==
    \A k \in DOMAIN klines :
        Len(klines[k]) > 0 => k \in DOMAIN lastRefresh

\* after a second call, the key has a cached series with rows and a last
\* closed period
C34_Witness ==
    /\ hist.name = "return"
    /\ th["loop"].ncalls = 2
    /\ th["loop"].cache
    /\ KeyBTC \in DOMAIN klines
    /\ Len(klines[KeyBTC]) > 0
    /\ KeyBTC \in DOMAIN lastRefresh

\* C35: for a cached key of a call that uses the cache, a last closed
\* period plus one interval that is exactly the start of the open period
\* means no fetch task: the key joins the cached pairs and keeps its
\* series; a fetch task is issued only when that sum is earlier than the
\* start of the open period.
C35_BoundaryIsFresh ==
    (/\ hist.name = "build"
     /\ hist.dec.kind # "skip"
     /\ hist.dec.cache
     /\ hist.dec.cachedBefore) =>
        /\ NextAfterLast = hist.dec.cur =>
              /\ hist.dec.kind = "cache"
              /\ ~hist.dec.evicted
              /\ hist.key \in CachedKeys(th[hist.t])
              /\ hist.key \notin JobKeys(th[hist.t])
              /\ hist.key \in DOMAIN klines
        /\ hist.dec.kind # "cache" => NextAfterLast < hist.dec.cur

\* in its second call the key was found cached with a last closed period
\* one interval before the open period, and joined the cached pairs
C35_Witness ==
    /\ hist.name = "build"
    /\ hist.dec.cache
    /\ hist.dec.cachedBefore
    /\ hist.dec.hasLast
    /\ NextAfterLast = hist.dec.cur
    /\ th[hist.t].ncalls = 2
    /\ hist.key \in CachedKeys(th[hist.t])
    /\ Len(klines[hist.key]) > 0

\* C36: throughout a call that does not use the cache, the cached series
\* and the last closed periods are those the call found; each of its
\* supported keys gets a fetch task, none is served from the cache and none
\* is evicted; each successful fetch is returned as the frame made of the
\* fetched rows, which is not the cached object.
C36_OneOffLeavesCache ==
    LET f == th["loop"]
    IN  (f.pc # "idle" /\ ~f.cache) =>
            /\ klines = f.kl0
            /\ lastRefresh = f.lr0
            /\ CachedKeys(f) = {}
            /\ hist.name = "build" =>
                  (hist.dec.kind \in {"historic", "single"}
                      /\ ~hist.dec.evicted
                      /\ hist.key \in JobKeys(f))
            /\ f.pc \notin {"idle", "build"} => JobKeys(f) = f.pairs
            /\ hist.name = "process" =>
                  /\ f.out[hist.key].df = hist.io.fetched
                  /\ ~f.out[hist.key].alias
                  /\ ~hist.merged

\* a call that does not use the cache has processed a fetch with rows for
\* a key whose cached series is another one
C36_Witness ==
    LET f == th["loop"]
    IN  /\ hist.name = "process"
        /\ ~f.cache
        /\ KeyBTC \in DOMAIN klines
        /\ Len(klines[KeyBTC]) > 0
        /\ Len(f.out[KeyBTC].df) > 0
        /\ f.out[KeyBTC].df # klines[KeyBTC]
        /\ klines = f.kl0

\* the batch of the thread has a task that is not done
BatchPending(f) == \E i \in 1..Len(f.results) : f.results[i].status = "pending"

\* a step that starts a batch takes the free lock, a step that completes a
\* task is done by the holder, which keeps the lock, and the lock is given
\* up only by its holder, with every task of the batch done
LockedStep ==
    \A t \in Threads :
        /\ (th[t].pc # "gather" /\ th'[t].pc = "gather") =>
              (loopLock = "free" /\ loopLock' = t)
        /\ (th[t].pc = "gather" /\ th'[t].pc = "gather"
                /\ th'[t].results # th[t].results) =>
              (loopLock = t /\ loopLock' = t)
        /\ (loopLock = t /\ loopLock' # t) =>
              (loopLock' = "free" /\ ~BatchPending(th[t])
                  /\ th[t].pc = "gather" /\ th'[t].pc = "process")
        /\ (th[t].pc = "gather" /\ th'[t].pc # "gather") => loopLock = t

TornDown ==
    \/ lastOp' = "read" /\ step'.hooks = <<"cleanup">>
    \/ lastOp' = "exit" /\ step'.hooks = <<"cleanup">>

\* the handler list after the step is a prefix of the list before it; a
\* teardown that ran to its end, and any teardown of the one-handler list
\* RPCManager.__init__ builds, leaves it empty; a message sent while the
\* list is empty calls no sink
SinkStep ==
    /\ Len(handlers') <= Len(handlers)
    /\ \A i \in 1..Len(handlers') : handlers'[i] = handlers[i]
    /\ (TornDown /\ (~step'.raised \/ Len(handlers) <= 1)) =>
          handlers' = <<>>
    /\ (handlers = <<>> /\ lastSent' # <<>> /\ lastOp' # lastOp) =>
          \A i \in 1..Len(lastSent') :
              /\ lastSent'[i].sinks = <<>>
              /\ lastSent'[i].calls = <<>>

\* C38: no step adds a handler to the fan-out's list; RPCManager.cleanup
\* empties it; every message sent once it is empty reaches no sink.
C38_SinksNeverGrow == [][SinkStep]_vars

\* the cleanup hook of STOPPED has emptied the list, the loop has gone on
\* in STOPPED, and the status message of the exit has reached no sink
C38_Witness ==
    /\ lastOp = "exit"
    /\ wstate = "STOPPED"
    /\ oldState = "STOPPED"
    /\ handlers = <<>>
    /\ Len(lastSent) = 1
    /\ lastSent[1].type = MsgStatus
    /\ lastSent[1].sinks = <<>>
    /\ lastSent[1].calls = <<>>

\* a start request sets RUNNING from STARTED and from STOPPED and reports
\* an already running bot otherwise; a stop request sets STOPPED from
\* RUNNING and reports an already stopped bot otherwise; apart from
\* them only the fault path of the RUNNING handler changes the state
ControlStep ==
    /\ lastOp' = "start" =>
          (botState \in {"STARTED", "STOPPED"} /\ botState' = "RUNNING")
    /\ lastOp' = "start_already" =>
          (botState = "RUNNING" /\ botState' = "RUNNING")
    /\ lastOp' = "stop" =>
          (botState = "RUNNING" /\ botState' = "STOPPED")
    /\ lastOp' = "stop_already" =>
          (botState \in {"STARTED", "STOPPED"} /\ botState' = botState)
    /\ botState' # botState =>
          lastOp' \in {"start", "stop", "running_fault"}

\* a read of STARTED fires no hook, sends nothing and tears nothing down,
\* and the dispatch that follows a read of STARTED runs neither handler
StartedStep ==
    /\ (pc = "read" /\ lastOp' = "read" /\ botState = "STARTED") =>
          /\ step'.hooks = <<>>
          /\ lastSent' = <<>>
          /\ handlers' = handlers
          /\ pc' = "dispatch"
    /\ (pc = "dispatch" /\ wstate = "STARTED"
            /\ lastOp' \notin {"start", "start_already", "stop",
                                "stop_already", "signal"}) =>
          /\ lastOp' = "idle"
          /\ lastSent' = <<>>
          /\ pc' = "read"
          /\ UNCHANGED <<botState, handlers>>

\* C39: start and stop requests change the state as RPC.rpc_start and
\* RPC.rpc_stop say and nothing else does but the fault path; while the
\* loop handles STARTED it fires no hook and runs no handler.
C39_ControlRequests == [][ControlStep /\ StartedStep]_vars

\* a stop request has found the bot in STARTED and left it there, and the
\* loop, which read STARTED before, has not run a handler
C39_Witness ==
    /\ lastOp = "stop_already"
    /\ botState = "STARTED"
    /\ wstate = "STARTED"
    /\ oldState = "STARTED"
    /\ pc = "read"

\* the date of the last row of the series the step's analysis read
ReadDate == an'.last.read[Len(an'.last.read)].date

\* the date recorded for the pair of the step's analysis before the step
SeenBefore == DictGet(an.seen, an'.last.pair, NaN)

\* the step is an analysis, under process_only_new_candles, of a series
\* with rows
NewOnlyStep ==
    /\ hist'.name = "analyze"
    /\ an.pc = "refresh"
    /\ an.onlyNew
    /\ an'.last.on
    /\ an'.last.kind # "empty"

\* a series whose last date is the one recorded for the pair is not
\* analysed and nothing is published for it; a series with another last
\* date is analysed, both messages are published for its key, and its
\* last date is the one recorded from then on
OncePerCandle ==
    NewOnlyStep =>
        LET run == an'.last
            key == <<run.pair, "5m", "spot">>
        IN  /\ SeenBefore = ReadDate =>
                  /\ run.kind = "skipped"
                  /\ run.sent = <<>>
                  /\ an'.seen = an.seen
            /\ SeenBefore # ReadDate =>
                  /\ run.kind = "launched"
                  /\ Len(run.sent) = 2
                  /\ run.sent[1].type = "ANALYZED_DF"
                  /\ run.sent[1].data.key = key
                  /\ run.sent[2] = [type |-> "NEW_CANDLE", data |-> key]
                  /\ DictGet(an'.seen, run.pair, NaN) = ReadDate
            /\ \A p \in DOMAIN an'.seen :
                  p # run.pair =>
                      (p \in DOMAIN an.seen /\ an'.seen[p] = an.seen[p])

\* C40: with process_only_new_candles, an analysis of a pair runs and
\* publishes only when the last date of the series read differs from the
\* date recorded at the pair's last analysis, and then it publishes both
\* messages; the recorded date changes only by the pair's own analysis.
C40_OncePerCandle ==
    [][OncePerCandle /\ (hist'.name # "analyze" => an'.seen = an.seen)]_vars

\* a cycle has skipped the analysis of a pair whose series still ends with
\* the candle recorded for it, and has published nothing
C40_Witness ==
    /\ hist.name = "analyze"
    /\ an.onlyNew
    /\ an.last.on
    /\ an.last.kind = "skipped"
    /\ an.last.sent = <<>>
    /\ an.last.pair \in DOMAIN an.seen
    /\ Len(an.last.read) > 0
    /\ an.seen[an.last.pair] = an.last.read[Len(an.last.read)].date
====
